---- MODULE Spec2Model ----
(***************************************************************************)
(* Model of the Clifford+T circuit optimizer (LysCompiler) together with   *)
(* the Operation / Rotation / Measure value types it works on.             *)
(*                                                                         *)
(* A Pauli basis (std::bitset<numQubits>) is the set of its 1-bit          *)
(* positions; qubit q lives at bit position numQubits-1-q, exactly as the  *)
(* constructors encode it with pow(2, numQubits-1-q).  Bitwise and / or /  *)
(* xor / not / count become intersection / union / symmetric difference /  *)
(* complement / Cardinality, and the shifts move bit positions.            *)
(*                                                                         *)
(* Every operation carries a ghost field id: the identity of the object    *)
(* behind the shared_ptr.  It is never read by the modelled code.          *)
(***************************************************************************)
EXTENDS Integers, Sequences, FiniteSets, TLC

\* ------------------------------------------------------------------------
\* Program constants
\* ------------------------------------------------------------------------
numQubits == 4

\* pushTForward: "at least 100 gates in each thread", "at most 50 threads"
GatesPerThread == 100
MaxPushThreads == 50

\* reduceLayerGreedyAlgo: numThreads = 50, while (numLayers > 100 && change)
LayerThreads == 50
LayerParallelMin == 100

\* ------------------------------------------------------------------------
\* Bounds of the exploration
\* ------------------------------------------------------------------------
MaxLen == 3
MaxLayerLen == 4
MaxCopies == 16
MaxExtra == 1
MaxTimeoutIter == 2
MaxAbsorbLen == 3
MaxPauliQubits == 2
MaxThreadLen == 5
MaxVectorLen == 2

\* ------------------------------------------------------------------------
\* bitset<numQubits>
\* ------------------------------------------------------------------------
Bits == 0 .. (numQubits - 1)

AllBits == Bits

BitOf(q) == numQubits - 1 - q

Xor(a, b) == (a \ b) \cup (b \ a)

Not(a) == AllBits \ a

ShiftRight(a, k) == { p - k : p \in { b \in a : b - k >= 0 } }

ShiftLeft(a, k) == { p + k : p \in { b \in a : b + k <= numQubits - 1 } }

Abs(n) == IF n < 0 THEN 0 - n ELSE n

\* ------------------------------------------------------------------------
\* Operation, Rotation, Measure
\* ------------------------------------------------------------------------
Rotation(angle, x, z, id) ==
    [kind |-> "R", xBasis |-> x, zBasis |-> z, angle |-> angle,
     phase |-> TRUE, rotations |-> << >>, id |-> id]

Measure(phase, x, z, rots, id) ==
    [kind |-> "M", xBasis |-> x, zBasis |-> z, angle |-> 0,
     phase |-> phase, rotations |-> rots, id |-> id]

isRotation(op) == op.kind = "R"

\* variant: only the x part of the left operand is counted
isCommuteOneSided(a, b) ==
    Cardinality(a.xBasis \cap b.zBasis) % 2 = 0

isCommute(a, b) ==
    (Cardinality(a.xBasis \cap b.zBasis) + Cardinality(a.zBasis \cap b.xBasis)) % 2 = 0

isIdentity(op) == Cardinality(op.xBasis) = 0 /\ Cardinality(op.zBasis) = 0

isTgate(op) ==
    IF op.kind = "R"
    THEN IF isIdentity(op) THEN FALSE ELSE Abs(op.angle) = 1
    ELSE FALSE

blockAction(R, ancillaBegin) ==
    LET xOrz == R.xBasis \cup R.zBasis
        maskData == ShiftLeft(AllBits, numQubits - ancillaBegin)
        maskAncilla == Not(maskData)
    IN  IF maskData \cap xOrz = {} THEN "a"
        ELSE IF maskAncilla \cap xOrz = {} THEN "d"
        ELSE "b"

\* ------------------------------------------------------------------------
\* 0-based access to std::vector
\* ------------------------------------------------------------------------
At(s, i) == s[i + 1]

SetAt(s, i, v) == [s EXCEPT ![i + 1] = v]

Erase(s, i) == SubSeq(s, 1, i) \o SubSeq(s, i + 2, Len(s))

Slice(s, b, e) == SubSeq(s, b + 1, e)

\* ------------------------------------------------------------------------
\* combineRotation / combineGate
\* ------------------------------------------------------------------------
\* variant: a sum of 3 or -3 is accepted as it is
combineRotationKeepsSum(R1, R2) ==
    LET newAngle == R1.angle + R2.angle
        refuse == [combined |-> FALSE, rots |-> << R1, R2 >>]
        make(a) == [combined |-> TRUE, rots |-> << [R1 EXCEPT !.angle = a] >>]
    IN  IF isIdentity(R1) /\ isIdentity(R2) THEN [combined |-> TRUE, rots |-> << >>]
        ELSE IF isIdentity(R1) THEN [combined |-> TRUE, rots |-> << R2 >>]
        ELSE IF isIdentity(R2) THEN [combined |-> TRUE, rots |-> << R1 >>]
        ELSE IF ~(R1.xBasis = R2.xBasis /\ R1.zBasis = R2.zBasis) THEN refuse
        ELSE IF newAngle = 0 THEN [combined |-> TRUE, rots |-> << >>]
        ELSE IF (R1.angle = 0 \/ R2.angle = 0)
                  /\ << R1.angle, R2.angle >> \notin { << -2, 0 >>, << 0, -2 >> }
             THEN refuse
        ELSE LET a1 == IF (R1.angle = 0 \/ R2.angle = 0) /\ newAngle = -2
                       THEN 2 ELSE newAngle
             IN  IF Abs(a1) = 4 THEN make(0)
                 ELSE make(a1)

\* variant: a Pauli and a rotation of angle -2 combine to angle -2
combineRotationKeepsSign(R1, R2) ==
    LET newAngle == R1.angle + R2.angle
        refuse == [combined |-> FALSE, rots |-> << R1, R2 >>]
        make(a) == [combined |-> TRUE, rots |-> << [R1 EXCEPT !.angle = a] >>]
    IN  IF isIdentity(R1) /\ isIdentity(R2) THEN [combined |-> TRUE, rots |-> << >>]
        ELSE IF isIdentity(R1) THEN [combined |-> TRUE, rots |-> << R2 >>]
        ELSE IF isIdentity(R2) THEN [combined |-> TRUE, rots |-> << R1 >>]
        ELSE IF ~(R1.xBasis = R2.xBasis /\ R1.zBasis = R2.zBasis) THEN refuse
        ELSE IF newAngle = 0 THEN [combined |-> TRUE, rots |-> << >>]
        ELSE IF (R1.angle = 0 \/ R2.angle = 0)
                  /\ << R1.angle, R2.angle >> \notin { << -2, 0 >>, << 0, -2 >> }
             THEN refuse
        ELSE LET a1 == newAngle
             IN  IF Abs(a1) = 3 THEN refuse
                 ELSE IF Abs(a1) = 4 THEN make(0)
                 ELSE make(a1)

\* variant: a sum of 4 or -4 is kept as the angle
combineRotationKeepsFour(R1, R2) ==
    LET newAngle == R1.angle + R2.angle
        refuse == [combined |-> FALSE, rots |-> << R1, R2 >>]
        make(a) == [combined |-> TRUE, rots |-> << [R1 EXCEPT !.angle = a] >>]
    IN  IF isIdentity(R1) /\ isIdentity(R2) THEN [combined |-> TRUE, rots |-> << >>]
        ELSE IF isIdentity(R1) THEN [combined |-> TRUE, rots |-> << R2 >>]
        ELSE IF isIdentity(R2) THEN [combined |-> TRUE, rots |-> << R1 >>]
        ELSE IF ~(R1.xBasis = R2.xBasis /\ R1.zBasis = R2.zBasis) THEN refuse
        ELSE IF newAngle = 0 THEN [combined |-> TRUE, rots |-> << >>]
        ELSE IF (R1.angle = 0 \/ R2.angle = 0)
                  /\ << R1.angle, R2.angle >> \notin { << -2, 0 >>, << 0, -2 >> }
             THEN refuse
        ELSE LET a1 == IF (R1.angle = 0 \/ R2.angle = 0) /\ newAngle = -2
                       THEN 2 ELSE newAngle
             IN  IF Abs(a1) = 3 THEN refuse
                 ELSE make(a1)

\* variant: the identity is treated as any other Pauli string
combineRotationNoIdentity(R1, R2) ==
    LET newAngle == R1.angle + R2.angle
        refuse == [combined |-> FALSE, rots |-> << R1, R2 >>]
        make(a) == [combined |-> TRUE, rots |-> << [R1 EXCEPT !.angle = a] >>]
    IN  IF ~(R1.xBasis = R2.xBasis /\ R1.zBasis = R2.zBasis) THEN refuse
        ELSE IF newAngle = 0 THEN [combined |-> TRUE, rots |-> << >>]
        ELSE IF (R1.angle = 0 \/ R2.angle = 0)
                  /\ << R1.angle, R2.angle >> \notin { << -2, 0 >>, << 0, -2 >> }
             THEN refuse
        ELSE LET a1 == IF (R1.angle = 0 \/ R2.angle = 0) /\ newAngle = -2
                       THEN 2 ELSE newAngle
             IN  IF Abs(a1) = 3 THEN refuse
                 ELSE IF Abs(a1) = 4 THEN make(0)
                 ELSE make(a1)

combineRotation(R1, R2) ==
    LET newAngle == R1.angle + R2.angle
        refuse == [combined |-> FALSE, rots |-> << R1, R2 >>]
        make(a) == [combined |-> TRUE, rots |-> << [R1 EXCEPT !.angle = a] >>]
    IN  IF isIdentity(R1) /\ isIdentity(R2) THEN [combined |-> TRUE, rots |-> << >>]
        ELSE IF isIdentity(R1) THEN [combined |-> TRUE, rots |-> << R2 >>]
        ELSE IF isIdentity(R2) THEN [combined |-> TRUE, rots |-> << R1 >>]
        ELSE IF ~(R1.xBasis = R2.xBasis /\ R1.zBasis = R2.zBasis) THEN refuse
        ELSE IF newAngle = 0 THEN [combined |-> TRUE, rots |-> << >>]
        ELSE IF (R1.angle = 0 \/ R2.angle = 0)
                  /\ << R1.angle, R2.angle >> \notin { << -2, 0 >>, << 0, -2 >> }
             THEN refuse
        ELSE LET a1 == IF (R1.angle = 0 \/ R2.angle = 0) /\ newAngle = -2
                       THEN 2 ELSE newAngle
             IN  IF Abs(a1) = 3 THEN refuse
                 ELSE IF Abs(a1) = 4 THEN make(0)
                 ELSE make(a1)

combineGate(R11, R22) ==
    IF isRotation(R11) /\ isRotation(R22)
    THEN combineRotation(R11, R22)
    ELSE [combined |-> FALSE, rots |-> << R11, R22 >>]

\* ------------------------------------------------------------------------
\* applyCommutation
\* ------------------------------------------------------------------------
Flip(cond, v) == IF cond THEN 0 - v ELSE v

Odd(S) == Cardinality(S) % 2 = 1

\* variant: the count of the factors i is left out
ParityFlipsWithoutCount(P, Q) ==
    LET PY == P.xBasis \cap P.zBasis
        QY == Q.xBasis \cap Q.zBasis
        n(c) == IF c THEN 1 ELSE 0
    IN  ( n(Odd(Not(P.xBasis) \cap P.zBasis \cap Q.xBasis \cap Not(Q.zBasis)))
        + n(Odd(PY \cap Q.xBasis \cap Not(Q.zBasis)))
        + n(Odd(Not(P.xBasis) \cap P.zBasis \cap QY))
        + n(Odd(PY \cap QY)) ) % 2 = 1

\* the five parity conditions shared by both overloads, evaluated on the
\* operands before they are combined: TRUE when an odd number of them hold
ParityFlips(P, Q) ==
    LET PY == P.xBasis \cap P.zBasis
        QY == Q.xBasis \cap Q.zBasis
        n(c) == IF c THEN 1 ELSE 0
    IN  ( n(Odd(Not(P.xBasis) \cap P.zBasis \cap Q.xBasis \cap Not(Q.zBasis)))
        + n(Odd(PY \cap Q.xBasis \cap Not(Q.zBasis)))
        + n(Odd(Not(P.xBasis) \cap P.zBasis \cap QY))
        + n(Odd(PY \cap QY))
        + n(((Cardinality(PY) + Cardinality(QY)
                - Cardinality(Xor(P.xBasis, Q.xBasis) \cap Xor(P.zBasis, Q.zBasis))
                + 1) % 4) # 0) ) % 2 = 1

\* Rotation x Rotation; nonTangle is the angle read from the first operand
applyCommutationWith(nonTangle, nonT, tgate) ==
    IF nonTangle = 0
    THEN [tgate EXCEPT !.angle = 0 - tgate.angle]
    ELSE [tgate EXCEPT !.xBasis = Xor(nonT.xBasis, tgate.xBasis),
                       !.zBasis = Xor(nonT.zBasis, tgate.zBasis),
                       !.angle = Flip(ParityFlips(nonT, tgate),
                                      Flip(nonTangle < 0, tgate.angle))]

applyCommutationRR(nonTgateRotation, tgateRotation) ==
    applyCommutationWith(nonTgateRotation.angle, nonTgateRotation, tgateRotation)

\* for (idxCRot ...) if (!cRot.isCommute(R1)) rotations[idxCRot] = ...
RewriteControlled(R1, rots) ==
    [i \in 1 .. Len(rots) |->
        IF ~isCommute(rots[i], R1) THEN applyCommutationRR(R1, rots[i]) ELSE rots[i]]

\* Rotation x Measure; throws invalid_argument unless R1 is Pauli or Clifford
applyCommutationThrows(R1) == R1.angle # 0 /\ Abs(R1.angle) # 2

applyCommutationRM(R1, M1) ==
    LET Negate(cond, phase) == IF cond THEN ~phase ELSE phase
    IN  IF R1.angle = 0
        THEN [M1 EXCEPT !.phase = ~M1.phase,
                        !.rotations = RewriteControlled(R1, M1.rotations)]
        ELSE [M1 EXCEPT !.xBasis = Xor(R1.xBasis, M1.xBasis),
                        !.zBasis = Xor(R1.zBasis, M1.zBasis),
                        !.phase = Negate(R1.angle = -2,
                                         Negate(ParityFlips(R1, M1), M1.phase)),
                        !.rotations = RewriteControlled(R1, M1.rotations)]

\* ------------------------------------------------------------------------
\* pushTForwardThread
\* ------------------------------------------------------------------------
\* Loops over an index range are unfolded by halving the range, which visits
\* the indices in the order the loop does.

\* first index in [beginIndex, endIndex) holding a non-T operation, or
\* flattenGates.size() when the range holds T rotations only
FindFirstNonT(gates, beginIndex, endIndex) ==
    LET nonT == { i \in beginIndex .. endIndex - 1 : ~isTgate(At(gates, i)) }
    IN  IF nonT = {} THEN Len(gates)
        ELSE CHOOSE i \in nonT : \A j \in nonT : i <= j

\* The left neighbour is cast to Rotation without a check.  For a Measure the
\* read of .angle is outside the object's type: wild stands for the value the
\* build produces there (only its being 0, negative or positive is observed).
NeighbourAngle(prev, wild) == IF isRotation(prev) THEN prev.angle ELSE wild

\* variant: the T at pivot is rewritten whether it commutes with its left
\* neighbour or not
SwapLeftRewrites(gates, pivot, wild) ==
    LET cur == At(gates, pivot)
        prev == At(gates, pivot - 1)
    IN  SetAt(SetAt(gates, pivot, prev), pivot - 1,
              applyCommutationWith(NeighbourAngle(prev, wild), prev, cur))

\* body of while (pivot > firstNontgateIndex): rewrite the T at pivot if it
\* does not commute with its left neighbour, then swap the two
SwapLeft(gates, pivot, wild) ==
    LET cur == At(gates, pivot)
        prev == At(gates, pivot - 1)
    IN  SetAt(SetAt(gates, pivot, prev), pivot - 1,
              IF ~isCommute(cur, prev)
              THEN applyCommutationWith(NeighbourAngle(prev, wild), prev, cur)
              ELSE cur)

\* variant: the T at pivot and the operation at target change places
BubbleLeftExchange(gates, pivot, target, wild) ==
    IF pivot <= target \/ pivot >= Len(gates) THEN gates
    ELSE SetAt(SetAt(gates, pivot, At(gates, target)), target, At(gates, pivot))

\* the T at pivot is carried down to index target
RECURSIVE BubbleLeft(_, _, _, _)
BubbleLeft(gates, pivot, target, wild) ==
    IF pivot <= target \/ pivot >= Len(gates) THEN gates
    ELSE IF pivot - target = 1 THEN SwapLeft(gates, pivot, wild)
    ELSE BubbleLeft(BubbleLeft(gates, pivot, (pivot + target) \div 2, wild),
                    (pivot + target) \div 2, target, wild)

\* variant: every T is carried down to offset, the first non-T index as it
\* was found, in front of the T rotations moved before it
PushStepToOffset(st, gateIndex, wild) ==
    IF isTgate(At(st.gates, gateIndex))
    THEN [gates |-> BubbleLeft(st.gates, gateIndex, st.offset, wild),
          firstNontgateIndex |-> st.firstNontgateIndex + 1,
          offset |-> st.offset]
    ELSE st

\* variant: every T is carried one place to the left only
PushStepOnePlace(st, gateIndex, wild) ==
    IF isTgate(At(st.gates, gateIndex))
    THEN [gates |-> BubbleLeft(st.gates, gateIndex, gateIndex - 1, wild),
          firstNontgateIndex |-> st.firstNontgateIndex + 1,
          offset |-> st.offset]
    ELSE st

\* body of for (gateIndex = offset + 1; gateIndex < endIndex; ++gateIndex)
PushStep(st, gateIndex, wild) ==
    IF isTgate(At(st.gates, gateIndex))
    THEN [gates |-> BubbleLeft(st.gates, gateIndex, st.firstNontgateIndex, wild),
          firstNontgateIndex |-> st.firstNontgateIndex + 1,
          offset |-> st.offset]
    ELSE st

RECURSIVE PushLoop(_, _, _, _)
PushLoop(st, lo, hi, wild) ==
    IF lo >= hi \/ hi > Len(st.gates) THEN st
    ELSE IF hi - lo = 1 THEN PushStep(st, lo, wild)
    ELSE PushLoop(PushLoop(st, lo, (lo + hi) \div 2, wild), (lo + hi) \div 2, hi, wild)

\* variant: reports the first non-T index found before any T was moved
pushTForwardThreadStaleSplit(flattenGates, beginIndex, endIndex, wild) ==
    LET firstNontgateIndex == FindFirstNonT(flattenGates, beginIndex, endIndex)
        Result(st) == [gates |-> st.gates, split |-> st.offset]
    IN  IF Len(flattenGates) = 0 THEN [gates |-> flattenGates, split |-> 0]
        ELSE IF firstNontgateIndex > endIndex - 1
        THEN [gates |-> flattenGates, split |-> endIndex]
        ELSE Result(PushLoop([gates |-> flattenGates,
                              firstNontgateIndex |-> firstNontgateIndex,
                              offset |-> firstNontgateIndex],
                             firstNontgateIndex + 1, endIndex, wild))

pushTForwardThread(flattenGates, beginIndex, endIndex, wild) ==
    LET firstNontgateIndex == FindFirstNonT(flattenGates, beginIndex, endIndex)
        Result(st) == [gates |-> st.gates, split |-> st.firstNontgateIndex]
    IN  IF Len(flattenGates) = 0 THEN [gates |-> flattenGates, split |-> 0]
        ELSE IF firstNontgateIndex > endIndex - 1
        THEN [gates |-> flattenGates, split |-> endIndex]
        ELSE Result(PushLoop([gates |-> flattenGates,
                              firstNontgateIndex |-> firstNontgateIndex,
                              offset |-> firstNontgateIndex],
                             firstNontgateIndex + 1, endIndex, wild))

\* ------------------------------------------------------------------------
\* implementationPushTForward / pushTForward
\* ------------------------------------------------------------------------
\* the index range [begin, end) given to worker idxThread of a call with the
\* arguments call.numThreads, call.begin and call.subsetEnd
PushSliceBegin(call, idxThread) ==
    call.begin + idxThread * ((call.subsetEnd - call.begin) \div call.numThreads)

\* variant: every worker's range runs to the end of the call's range
PushSliceEndWhole(call, idxThread) == call.subsetEnd

PushSliceEnd(call, idxThread) ==
    IF idxThread = call.numThreads - 1 THEN call.subsetEnd
    ELSE PushSliceBegin(call, idxThread + 1)

\* The workers own pairwise disjoint index ranges of the shared vector and
\* are all joined before the splits are read, so running them one after the
\* other gives the vector every interleaving gives.  st holds the vector and
\* the futures' values in thread order.
RECURSIVE RunPushThreads(_, _, _, _, _, _, _)
RunPushThreads(st, idxThread, numThreads, begin, subVectorLength, subsetEnd, wild) ==
    LET Joined(r) == [gates |-> r.gates, splits |-> Append(st.splits, r.split)]
    IN  IF idxThread >= numThreads THEN st
        ELSE RunPushThreads(
                 Joined(pushTForwardThread(st.gates, begin,
                            IF idxThread = numThreads - 1 THEN subsetEnd
                            ELSE begin + subVectorLength, wild)),
                 idxThread + 1, numThreads, begin + subVectorLength,
                 subVectorLength, subsetEnd, wild)

\* r carries flattenGates with begin (first) and subsetEnd (last); the result
\* carries the splits of the first and of the last worker.  rounds lists the
\* arguments of the calls made so far.
implementationPushTForward(r, numThreads, wild) ==
    LET Result(t) == [gates |-> t.gates,
                      first |-> t.splits[1],
                      last |-> t.splits[Len(t.splits)],
                      rounds |-> Append(r.rounds,
                                        [numThreads |-> numThreads,
                                         begin |-> r.first,
                                         subsetEnd |-> r.last])]
    IN  Result(RunPushThreads([gates |-> r.gates, splits |-> << >>], 0, numThreads,
                              r.first, (r.last - r.first) \div numThreads,
                              r.last, wild))

InitialPushThreads(size) ==
    LET n == size \div GatesPerThread
    IN  IF MaxPushThreads < n THEN MaxPushThreads ELSE n

\* while (numThreads > 1) { one parallel round; numThreads-- }
RECURSIVE PushRounds(_, _, _)
PushRounds(r, numThreads, wild) ==
    IF numThreads > 1
    THEN PushRounds(implementationPushTForward(r, numThreads, wild),
                    numThreads - 1, wild)
    ELSE r

\* the rounds, then one serial pass over what lies between the two splits
pushTForward(flattenGates, wild) ==
    LET Result(final) == [gates |-> final.gates, split |-> final.first,
                          rounds |-> final.rounds]
    IN  Result(implementationPushTForward(
                   PushRounds([gates |-> flattenGates, first |-> 0,
                               last |-> Len(flattenGates), rounds |-> << >>],
                              InitialPushThreads(Len(flattenGates)), wild),
                   1, wild))

\* the layers one after the other (the lower and the upper half each)
RECURSIVE Flatten(_)
Flatten(layers) ==
    IF Len(layers) = 0 THEN << >>
    ELSE IF Len(layers) = 1 THEN layers[1]
    ELSE Flatten(SubSeq(layers, 1, Len(layers) \div 2))
           \o Flatten(SubSeq(layers, Len(layers) \div 2 + 1, Len(layers)))

\* ------------------------------------------------------------------------
\* reduceLayerGreedyAlgoThread
\* ------------------------------------------------------------------------
\* A while loop is unfolded as a step on the record of its variables, taken
\* as long as its condition holds; the second argument of the unfolding is a
\* number of steps the loop cannot exceed.

\* variant: only the first gate of currentLayer is tested
CommutesWithFirst(g, currentLayer) == isCommute(g, currentLayer[1])

\* commute after the loop over currentLayer (currentLayer is never empty here)
CommutesWithLayer(g, currentLayer) ==
    \A k \in 1 .. Len(currentLayer) : isCommute(g, currentLayer[k])

\* for (nextLayerGateIndex ...): the loop stops at the first Measure of
\* nextLayer; added holds the indices before it of the rotations that commute
\* with all of currentLayer, in increasing order
ScanNextLayer(currentLayer, nextLayer) ==
    LET measures == { i \in 0 .. Len(nextLayer) - 1 : ~isRotation(At(nextLayer, i)) }
        stopAt == IF measures = {} THEN Len(nextLayer)
                  ELSE CHOOSE i \in measures : \A j \in measures : i <= j
        Joins(i) == CommutesWithLayer(At(nextLayer, i), currentLayer)
    IN  [added |-> SelectSeq([k \in 1 .. stopAt |-> k - 1], Joins),
         beginOfMeasure |-> measures # {}]

PickGates(layer, indices) == [k \in 1 .. Len(indices) |-> At(layer, indices[k])]

\* the transferred gates are erased by index from the last one down, so
\* that the indices still to erase stay valid: what remains are the gates at
\* the other indices, in order
EraseGates(layer, indices) ==
    LET gone == { indices[k] : k \in 1 .. Len(indices) }
        Stays(i) == i \notin gone
    IN  PickGates(layer, SelectSeq([k \in 1 .. Len(layer) |-> k - 1], Stays))

\* body of while (currentLayerIndex < circuitLayers.size() - 1)
SweepStep(st) ==
    LET currentLayer == At(st.layers, st.currentLayerIndex)
        nextLayer == At(st.layers, st.currentLayerIndex + 1)
        Transfer(scan) ==
            [layers |-> IF Len(nextLayer) # Len(scan.added)
                        THEN SetAt(SetAt(st.layers, st.currentLayerIndex,
                                         currentLayer \o PickGates(nextLayer, scan.added)),
                                   st.currentLayerIndex + 1,
                                   EraseGates(nextLayer, scan.added))
                        ELSE Erase(SetAt(st.layers, st.currentLayerIndex,
                                         currentLayer \o nextLayer),
                                   st.currentLayerIndex + 1),
             currentLayerIndex |-> IF Len(nextLayer) # Len(scan.added)
                                   THEN st.currentLayerIndex + 1
                                   ELSE st.currentLayerIndex,
             done |-> IF Len(scan.added) > 0 THEN FALSE ELSE st.done,
             change |-> IF Len(scan.added) > 0 THEN TRUE ELSE st.change,
             beginOfMeasure |-> scan.beginOfMeasure]
    IN  IF Len(currentLayer) = 0
        THEN [st EXCEPT !.layers = Erase(st.layers, st.currentLayerIndex)]
        ELSE Transfer(ScanNextLayer(currentLayer, nextLayer))

RECURSIVE LayerSweep(_, _)
LayerSweep(st, steps) ==
    IF st.beginOfMeasure \/ st.currentLayerIndex >= Len(st.layers) - 1 \/ steps = 0
    THEN st
    ELSE IF steps = 1 THEN SweepStep(st)
    ELSE LayerSweep(LayerSweep(st, steps \div 2), steps - steps \div 2)

\* body of while (!done): one sweep from layer 0; a sweep erases a layer or
\* moves to the next one at every step
UntilDoneStep(st) ==
    LET Result(sweep) ==
            [layers |-> sweep.layers, change |-> sweep.change, done |-> sweep.done]
    IN  Result(LayerSweep([layers |-> st.layers, currentLayerIndex |-> 0,
                           done |-> TRUE, change |-> st.change,
                           beginOfMeasure |-> FALSE],
                          2 * Len(st.layers) + 1))

RECURSIVE LayerUntilDone(_, _)
LayerUntilDone(st, sweeps) ==
    IF st.done \/ sweeps = 0 THEN st
    ELSE IF sweeps = 1 THEN UntilDoneStep(st)
    ELSE LayerUntilDone(LayerUntilDone(st, sweeps \div 2), sweeps - sweeps \div 2)

\* every sweep but the last moves a gate to an earlier layer
reduceLayerGreedyAlgoThread(circuitLayers, change) ==
    LET gates == Len(Flatten(circuitLayers))
        Result(r) == [layers |-> r.layers, change |-> r.change]
    IN  Result(LayerUntilDone([layers |-> circuitLayers, change |-> change,
                               done |-> FALSE],
                              gates * gates + 1))

\* ------------------------------------------------------------------------
\* reduceLayerGreedyAlgo
\* ------------------------------------------------------------------------
\* variant: the layers are filled from the back of circuitVec
OneGatePerLayerReversed(circuitVec) ==
    [i \in 1 .. Len(circuitVec) |-> << circuitVec[Len(circuitVec) + 1 - i] >>]

OneGatePerLayer(circuitVec) == [i \in 1 .. Len(circuitVec) |-> << circuitVec[i] >>]

\* the layers [beginIndex, endIndex) copied into slicedVect[index]
LayerSliceBegin(index, numLayersInThread) == index * numLayersInThread

\* variant: the last slice ends where the others would
LayerSliceEndEven(index, numLayersInThread, numLayers) ==
    (index + 1) * numLayersInThread

LayerSliceEnd(index, numLayersInThread, numLayers) ==
    IF index = LayerThreads - 1 THEN numLayers
    ELSE (index + 1) * numLayersInThread

\* worker index reduces its own copy slicedVect[index]
LayerThread(circuitLayers, index, numLayersInThread, numLayers) ==
    reduceLayerGreedyAlgoThread(
        Slice(circuitLayers, LayerSliceBegin(index, numLayersInThread),
              LayerSliceEnd(index, numLayersInThread, numLayers)), FALSE)

\* what one round hands to its workers: the layer ranges follow from
\* numLayers and numLayersInThread, gates counts the operations in each copy
LayerRound(circuitLayers, numLayersInThread) ==
    [numThreads |-> LayerThreads,
     numLayers |-> Len(circuitLayers),
     numLayersInThread |-> numLayersInThread,
     gates |-> [index \in 0 .. LayerThreads - 1 |->
                   Len(Flatten(Slice(circuitLayers,
                                     LayerSliceBegin(index, numLayersInThread),
                                     LayerSliceEnd(index, numLayersInThread,
                                                   Len(circuitLayers)))))]]

\* the slices of the workers lo .. hi-1 put back one after the other, and
\* whether one of them changed (the lower and the upper half each)
RECURSIVE RunLayerThreads(_, _, _, _, _)
RunLayerThreads(circuitLayers, lo, hi, numLayersInThread, numLayers) ==
    IF hi - lo = 1
    THEN LayerThread(circuitLayers, lo, numLayersInThread, numLayers)
    ELSE LET mid == (lo + hi) \div 2
             lower == RunLayerThreads(circuitLayers, lo, mid, numLayersInThread, numLayers)
             upper == RunLayerThreads(circuitLayers, mid, hi, numLayersInThread, numLayers)
         IN  [layers |-> lower.layers \o upper.layers,
              change |-> lower.change \/ upper.change]

\* while (numLayers > 100 && change); the serial final run is commented out
RECURSIVE LayerRounds(_)
LayerRounds(r) ==
    LET Joined(t) == [layers |-> t.layers, change |-> t.change,
                      rounds |-> Append(r.rounds,
                                        LayerRound(r.layers,
                                                   Len(r.layers) \div LayerThreads))]
    IN  IF Len(r.layers) > LayerParallelMin /\ r.change
        THEN LayerRounds(Joined(RunLayerThreads(r.layers, 0, LayerThreads,
                                                Len(r.layers) \div LayerThreads,
                                                Len(r.layers))))
        ELSE r

\* the partition, with what each round handed to its workers
reduceLayerGreedyAlgo(circuitVec) ==
    LayerRounds([layers |-> OneGatePerLayer(circuitVec), change |-> TRUE,
                 rounds |-> << >>])

\* ------------------------------------------------------------------------
\* noOrderingRotationCombination (one layer)
\* ------------------------------------------------------------------------
\* body of while (sizeCondition > index1)
CombineScanStep(st) ==
    LET Advance(list2, i2, combined) ==
            [list |-> list2,
             index1 |-> IF i2 >= Len(list2) THEN st.index1 + 1 ELSE st.index1,
             index2 |-> IF i2 >= Len(list2) THEN st.index1 + 2 ELSE i2,
             changed |-> st.changed \/ combined]
        Apply(resp) ==
            IF ~resp.combined THEN Advance(st.list, st.index2 + 1, FALSE)
            ELSE IF Len(resp.rots) = 0
            THEN Advance(Erase(Erase(st.list, st.index2), st.index1), st.index2, TRUE)
            ELSE Advance(Erase(SetAt(st.list, st.index1, resp.rots[1]), st.index2),
                         st.index2, TRUE)
    IN  Apply(combineGate(At(st.list, st.index1), At(st.list, st.index2)))

RECURSIVE CombineScan(_, _)
CombineScan(st, steps) ==
    IF Len(st.list) - 1 <= st.index1 \/ steps = 0 THEN st
    ELSE IF steps = 1 THEN CombineScanStep(st)
    ELSE CombineScan(CombineScan(st, steps \div 2), steps - steps \div 2)

\* a step shortens the list or moves index2 or index1 on
implementNoOrderingRotationCombination(listOfRotations) ==
    LET Result(r) == [list |-> r.list, changed |-> r.changed]
    IN  IF Len(listOfRotations) = 1
        THEN IF isIdentity(listOfRotations[1])
             THEN [list |-> << >>, changed |-> TRUE]
             ELSE [list |-> listOfRotations, changed |-> FALSE]
        ELSE Result(CombineScan([list |-> listOfRotations, index1 |-> 0,
                                 index2 |-> 1, changed |-> FALSE],
                                (Len(listOfRotations) + 1) * (Len(listOfRotations) + 1)))

\* variant: the list is gone through once
noOrderingRotationCombinationOnce(listOfRotations) ==
    IF Len(listOfRotations) = 0
    THEN [list |-> listOfRotations, changed |-> FALSE]
    ELSE implementNoOrderingRotationCombination(listOfRotations)

\* the call is repeated on its own result for as long as it changes the list
RECURSIVE noOrderingRotationCombination(_)
noOrderingRotationCombination(listOfRotations) ==
    LET Again(once) ==
            IF once.changed
            THEN [noOrderingRotationCombination(once.list) EXCEPT !.changed = TRUE]
            ELSE once
    IN  IF Len(listOfRotations) = 0
        THEN [list |-> listOfRotations, changed |-> FALSE]
        ELSE Again(implementNoOrderingRotationCombination(listOfRotations))

\* ------------------------------------------------------------------------
\* noOrderingRotationLayerCombination (two layers), as optimizeRotation's
\* first step uses it: layer1 and layer2 hold one operation each
\* ------------------------------------------------------------------------
RECURSIVE LayerPairScan(_, _, _, _, _)
LayerPairScan(layer1, layer2, i, j, changed) ==
    LET Apply(resp) ==
            IF ~resp.combined
            THEN LayerPairScan(layer1, layer2, i, j + 1, changed)
            ELSE IF Len(resp.rots) = 0
            THEN LayerPairScan(Erase(layer1, i), Erase(layer2, j), i, j + 1, TRUE)
            ELSE LayerPairScan(SetAt(layer1, i, resp.rots[1]), Erase(layer2, j),
                               i, j + 1, TRUE)
    IN  IF i >= Len(layer1)
        THEN [layer1 |-> layer1, layer2 |-> layer2, changed |-> changed]
        ELSE IF j >= Len(layer2)
        THEN LayerPairScan(layer1, layer2, i + 1, 0, changed)
        ELSE Apply(combineGate(At(layer1, i), At(layer2, j)))

implementNoOrderingRotationLayerCombination(layer1, layer2) ==
    LayerPairScan(layer1, layer2, 0, 0, FALSE)

RECURSIVE noOrderingRotationLayerCombination(_, _)
noOrderingRotationLayerCombination(layer1, layer2) ==
    LET Again(once) ==
            IF once.changed
            THEN [noOrderingRotationLayerCombination(once.layer1, once.layer2)
                    EXCEPT !.changed = TRUE]
            ELSE once
    IN  IF Len(layer1) = 0 \/ Len(layer2) = 0
        THEN [layer1 |-> layer1, layer2 |-> layer2, changed |-> FALSE]
        ELSE Again(implementNoOrderingRotationLayerCombination(layer1, layer2))

\* ------------------------------------------------------------------------
\* optimizeRotation
\* ------------------------------------------------------------------------
\* variant: the combined rotation is appended every time
CombineAdjacentStepKeepsFused(st) ==
    LET Apply(r) ==
            LET fused == r.changed /\ Len(r.layer1) > 0
                upd1 == IF ~r.changed \/ fused
                        THEN Append(st.updatedCircuit, r.layer1[1])
                        ELSE st.updatedCircuit
                i2 == IF ~r.changed \/ fused THEN st.index2 + 1 ELSE st.index2 + 2
            IN  [circuit |-> IF fused THEN SetAt(st.circuit, st.index1, r.layer1[1])
                             ELSE st.circuit,
                 index1 |-> IF ~r.changed THEN st.index2
                            ELSE IF fused THEN st.index1
                            ELSE st.index2 + 1,
                 index2 |-> i2,
                 updatedCircuit |-> IF i2 >= Len(st.circuit) /\ Len(r.layer2) > 0
                                    THEN Append(upd1, r.layer2[1])
                                    ELSE upd1]
    IN  Apply(noOrderingRotationLayerCombination(<< At(st.circuit, st.index1) >>,
                                                 << At(st.circuit, st.index2) >>))

\* step 1, body of while (index2 < this->circuit.size())
CombineAdjacentStep(st) ==
    LET Apply(r) ==
            LET fused == r.changed /\ Len(r.layer1) > 0
                upd1 == IF ~r.changed
                        THEN Append(st.updatedCircuit, r.layer1[1])
                        ELSE IF fused /\ st.index2 = Len(st.circuit) - 1
                        THEN Append(st.updatedCircuit, r.layer1[1])
                        ELSE st.updatedCircuit
                i2 == IF ~r.changed \/ fused THEN st.index2 + 1 ELSE st.index2 + 2
            IN  [circuit |-> IF fused THEN SetAt(st.circuit, st.index1, r.layer1[1])
                             ELSE st.circuit,
                 index1 |-> IF ~r.changed THEN st.index2
                            ELSE IF fused THEN st.index1
                            ELSE st.index2 + 1,
                 index2 |-> i2,
                 \* in case the last Rotation fails to combine
                 updatedCircuit |-> IF i2 >= Len(st.circuit) /\ Len(r.layer2) > 0
                                    THEN Append(upd1, r.layer2[1])
                                    ELSE upd1]
    IN  Apply(noOrderingRotationLayerCombination(<< At(st.circuit, st.index1) >>,
                                                 << At(st.circuit, st.index2) >>))

RECURSIVE CombineAdjacentLoop(_, _)
CombineAdjacentLoop(st, steps) ==
    IF st.index2 >= Len(st.circuit) \/ steps = 0 THEN st
    ELSE IF steps = 1 THEN CombineAdjacentStep(st)
    ELSE CombineAdjacentLoop(CombineAdjacentLoop(st, steps \div 2),
                             steps - steps \div 2)

\* step 1: combine adjacent gates of the original circuit; index2 grows at
\* every step
CombineAdjacent(circ) ==
    CombineAdjacentLoop([circuit |-> circ, index1 |-> 0, index2 |-> 1,
                         updatedCircuit |-> << >>],
                        Len(circ)).updatedCircuit

\* step 4 on every layer
\* variant: a change is reported whenever there is a layer
CombineLayersReportsLayers(layers) ==
    LET Result(combined) ==
            [layers |-> [k \in 1 .. Len(layers) |-> combined[k].list],
             changed |-> Len(layers) > 0]
    IN  Result([k \in 1 .. Len(layers) |-> noOrderingRotationCombination(layers[k])])

CombineLayers(layers) ==
    LET Result(combined) ==
            [layers |-> [k \in 1 .. Len(layers) |-> combined[k].list],
             changed |-> \E k \in 1 .. Len(layers) : combined[k].changed]
    IN  Result([k \in 1 .. Len(layers) |-> noOrderingRotationCombination(layers[k])])

NoTimeout == << 0, 0 >>

\* The wall clock is read at three places of every iteration.  tmo names the
\* first read at which elapsed_loop >= time_out holds (iteration, check), or
\* NoTimeout; elapsed_loop only grows, so every later read sees it too.
Expired(tmo, iter, chk) ==
    /\ tmo # NoTimeout
    /\ \/ tmo[1] < iter
       \/ tmo[1] = iter /\ tmo[2] <= chk

\* variant: the operations behind the split go in front of pushedBackNonT
\* one by one, the last of them first
RECURSIVE OptimizeLoopOneByOne(_, _, _, _, _, _)
OptimizeLoopOneByOne(circ, pushedBackNonT, iter, tmo, wild, prefixSizes) ==
    LET Close(fuse, tail, sizes) ==
            IF fuse.changed /\ ~Expired(tmo, iter, 3)
            THEN OptimizeLoopOneByOne(Flatten(fuse.layers), tail, iter + 1, tmo, wild, sizes)
            ELSE [circuit |-> Flatten(fuse.layers), pushedBackNonT |-> tail,
                  iterations |-> iter,
                  exit |-> IF Expired(tmo, iter, 3) THEN "expired" ELSE "fixpoint",
                  prefixSizes |-> sizes]
        Fuse(reduced) ==
            IF Expired(tmo, iter, 2)
            THEN [layers |-> reduced, changed |-> FALSE]
            ELSE CombineLayers(reduced)
        Body(pushed) ==
            IF Expired(tmo, iter, 1)
            THEN [circuit |-> pushed.gates, pushedBackNonT |-> pushedBackNonT,
                  iterations |-> iter, exit |-> "break",
                  prefixSizes |-> prefixSizes]
            ELSE Close(Fuse(reduceLayerGreedyAlgo(Slice(pushed.gates, 0, pushed.split)).layers),
                       [k \in 1 .. Len(pushed.gates) - pushed.split |->
                           pushed.gates[Len(pushed.gates) + 1 - k]]
                           \o pushedBackNonT,
                       Append(prefixSizes, pushed.split))
    IN  Body(pushTForward(circ, wild))

\* while (changedFlag): the T prefix is layered and its layers combined; the
\* operations behind the split go in front of pushedBackNonT
RECURSIVE OptimizeLoop(_, _, _, _, _, _)
OptimizeLoop(circ, pushedBackNonT, iter, tmo, wild, prefixSizes) ==
    LET Close(fuse, tail, sizes) ==
            IF fuse.changed /\ ~Expired(tmo, iter, 3)
            THEN OptimizeLoop(Flatten(fuse.layers), tail, iter + 1, tmo, wild, sizes)
            ELSE [circuit |-> Flatten(fuse.layers), pushedBackNonT |-> tail,
                  iterations |-> iter,
                  exit |-> IF Expired(tmo, iter, 3) THEN "expired" ELSE "fixpoint",
                  prefixSizes |-> sizes]
        Fuse(reduced) ==
            IF Expired(tmo, iter, 2)
            THEN [layers |-> reduced, changed |-> FALSE]
            ELSE CombineLayers(reduced)
        Body(pushed) ==
            IF Expired(tmo, iter, 1)
            THEN [circuit |-> pushed.gates, pushedBackNonT |-> pushedBackNonT,
                  iterations |-> iter, exit |-> "break",
                  prefixSizes |-> prefixSizes]
            ELSE Close(Fuse(reduceLayerGreedyAlgo(Slice(pushed.gates, 0, pushed.split)).layers),
                       Slice(pushed.gates, pushed.split, Len(pushed.gates))
                           \o pushedBackNonT,
                       Append(prefixSizes, pushed.split))
    IN  Body(pushTForward(circ, wild))

\* steps 2 to 5 on the circuit step 1 left
OptimizeCombined(combined, tmo, wild) ==
    LET Result(loop) ==
            [circuit |-> loop.circuit \o loop.pushedBackNonT,
             numOfTgates |-> Len(loop.circuit),
             exit |-> loop.exit,
             iterations |-> loop.iterations,
             prefixSizes |-> loop.prefixSizes,
             step1 |-> combined]
    IN  Result(OptimizeLoop(combined, << >>, 1, tmo, wild, << >>))

optimizeRotation(circ, tmo, wild) ==
    OptimizeCombined(CombineAdjacent(circ), tmo, wild)

\* ------------------------------------------------------------------------
\* basis_permutation
\* ------------------------------------------------------------------------
Support(op) == op.xBasis \cup op.zBasis

\* first loop: walk the trailing measurements, collecting the masks
RECURSIVE ScanMeasures(_, _, _, _, _, _)
ScanMeasures(circ, idxGate, idxOfTGates, maskOverall, maskAncilla, ancillaBegin) ==
    IF idxGate > idxOfTGates /\ ~isRotation(At(circ, idxGate))
    THEN ScanMeasures(circ, idxGate - 1, idxOfTGates,
                      maskOverall \cup Support(At(circ, idxGate)),
                      ShiftRight(AllBits, ancillaBegin), ancillaBegin)
    ELSE [idxGate |-> idxGate, maskOverall |-> maskOverall,
          maskAncilla |-> maskAncilla]

\* Rotation R; left default-constructed when circuit[idxR] is a Measure
ScannedRotation(op) == IF isRotation(op) THEN op ELSE Rotation(0, {}, {}, 0)

doSomething(R, ancillaBegin, maskOverall, maskAncilla) ==
    LET block_action == blockAction(R, ancillaBegin)
        touched == maskAncilla \cap Support(R)
    IN  IF block_action = "a" THEN ~((touched \cap maskOverall) # touched)
        ELSE IF block_action = "b" THEN ~((touched \cap maskOverall) # {})
        ELSE TRUE

\* for (idxM = idxGate + 1; idxM <= idxLastM; idxM++): every entry in that
\* range is a Measure, and each is rewritten from R alone.  A Measure that
\* commutes with R has its controlled rotations rewritten in a local copy
\* only; the circuit keeps the original.  The first Measure that does not
\* commute with R makes applyCommutation throw when R is neither Pauli nor
\* Clifford, before anything was written.
AbsorbThrows(circ, R, idxGate) ==
    /\ applyCommutationThrows(R)
    /\ \E idxM \in idxGate + 1 .. Len(circ) - 1 : ~isCommute(R, At(circ, idxM))

AbsorbInto(circ, R, idxGate) ==
    [k \in 1 .. Len(circ) |->
        IF k - 1 > idxGate /\ ~isCommute(R, circ[k])
        THEN applyCommutationRM(R, circ[k])
        ELSE circ[k]]

eraseRotation(R, ancillaBegin, maskOverall, maskAncilla) ==
    /\ blockAction(R, ancillaBegin) = "a"
    /\ (maskAncilla \cap Support(R) \cap maskOverall) = (maskAncilla \cap Support(R))

\* body of while (idxR > idxOfTGates); st.stoppedAt is the index the loop
\* broke at, st.threw whether applyCommutation threw there
AbsorbStep(st, masks, ancillaBegin) ==
    LET R == ScannedRotation(At(st.circuit, st.idxR))
    IN  IF ~doSomething(R, ancillaBegin, masks.maskOverall, masks.maskAncilla)
        THEN [st EXCEPT !.stoppedAt = st.idxR]
        ELSE IF AbsorbThrows(st.circuit, R, masks.idxGate)
        THEN [st EXCEPT !.stoppedAt = st.idxR, !.threw = TRUE]
        ELSE IF eraseRotation(R, ancillaBegin, masks.maskOverall, masks.maskAncilla)
        THEN [st EXCEPT !.circuit = AbsorbInto(st.circuit, R, masks.idxGate),
                        !.deleteRotationSet = @ \cup {st.idxR},
                        !.idxR = @ - 1]
        ELSE [st EXCEPT !.circuit = AbsorbInto(st.circuit, R, masks.idxGate),
                        !.moveRotationSet = @ \cup {st.idxR},
                        !.numberOfCummutedGate = @ + 1,
                        !.idxR = @ - 1]

RECURSIVE AbsorbScan(_, _, _, _)
AbsorbScan(st, idxOfTGates, masks, ancillaBegin) ==
    IF st.idxR <= idxOfTGates \/ st.stoppedAt >= 0 THEN st
    ELSE AbsorbScan(AbsorbStep(st, masks, ancillaBegin), idxOfTGates, masks,
                    ancillaBegin)

\* variant: a moved rotation is put in front of the ones moved before it
CompactStepPushFront(st, moveSet, deleteSet) ==
    IF st.ptr2 \in moveSet
    THEN [st EXCEPT !.permuteList = << At(st.circuit, st.ptr2) >> \o @, !.ptr2 = @ + 1]
    ELSE IF st.ptr2 \in deleteSet
    THEN [st EXCEPT !.ptr2 = @ + 1]
    ELSE [st EXCEPT !.circuit = SetAt(@, st.ptr1, At(st.circuit, st.ptr2)),
                    !.ptr1 = @ + 1, !.ptr2 = @ + 1]

\* shift rotations to the left: body of while (ptr2 < this->circuit.size())
CompactStep(st, moveSet, deleteSet) ==
    IF st.ptr2 \in moveSet
    THEN [st EXCEPT !.permuteList = Append(@, At(st.circuit, st.ptr2)), !.ptr2 = @ + 1]
    ELSE IF st.ptr2 \in deleteSet
    THEN [st EXCEPT !.ptr2 = @ + 1]
    ELSE [st EXCEPT !.circuit = SetAt(@, st.ptr1, At(st.circuit, st.ptr2)),
                    !.ptr1 = @ + 1, !.ptr2 = @ + 1]

RECURSIVE CompactLoop(_, _, _)
CompactLoop(st, moveSet, deleteSet) ==
    IF st.ptr2 >= Len(st.circuit) THEN st
    ELSE CompactLoop(CompactStep(st, moveSet, deleteSet), moveSet, deleteSet)

\* shift, delete the tail from ptr1 on, append the permuted rotations
Compact(circ, numOfTGates, moveSet, deleteSet) ==
    LET Result(st) == Slice(st.circuit, 0, st.ptr1) \o st.permuteList
    IN  Result(CompactLoop([circuit |-> circ, ptr1 |-> numOfTGates,
                            ptr2 |-> numOfTGates, permuteList |-> << >>],
                           moveSet, deleteSet))

\* the scan from the last rotation down, then the compaction unless the scan
\* threw; before and scanned are the circuit on entry and after the scan
PermuteFrom(circ, numOfTGates, ancillaBegin, masks) ==
    LET Result(scan) ==
            [circuit |-> IF scan.threw THEN scan.circuit
                         ELSE Compact(scan.circuit, numOfTGates,
                                      scan.moveRotationSet, scan.deleteRotationSet),
             numberOfCummutedGate |-> scan.numberOfCummutedGate,
             moveRotationSet |-> scan.moveRotationSet,
             deleteRotationSet |-> scan.deleteRotationSet,
             stoppedAt |-> scan.stoppedAt,
             idxGate |-> masks.idxGate,
             maskOverall |-> masks.maskOverall,
             maskAncilla |-> masks.maskAncilla,
             numOfTGates |-> numOfTGates,
             before |-> circ,
             scanned |-> scan.circuit,
             threw |-> scan.threw]
    IN  Result(AbsorbScan([circuit |-> circ, idxR |-> masks.idxGate,
                           moveRotationSet |-> {}, deleteRotationSet |-> {},
                           numberOfCummutedGate |-> 0, stoppedAt |-> -1,
                           threw |-> FALSE],
                          numOfTGates - 1, masks, ancillaBegin))

basis_permutation(circ, numOfTGates, ancillaBegin) ==
    PermuteFrom(circ, numOfTGates, ancillaBegin,
                ScanMeasures(circ, Len(circ) - 1, numOfTGates - 1, {}, {}, ancillaBegin))

\* ------------------------------------------------------------------------
\* runLysCompiler
\* ------------------------------------------------------------------------
None == [exit |-> "none"]

\* variant: without basis_permutation the index returned is the number
\* optimizeRotation returned
CompileFromSplitAtT(o, ancillaBegin, removeNonT) ==
    LET Absorbed(p) ==
            [circuit |-> p.circuit,
             startingIdxToRemoveAfterMeasure |-> Len(o.circuit) - p.numberOfCummutedGate,
             layerC |-> << >>, opt |-> o, perm |-> p, threw |-> p.threw]
    IN  IF removeNonT
        THEN Absorbed(basis_permutation(o.circuit, o.numOfTgates, ancillaBegin))
        ELSE [circuit |-> o.circuit,
              startingIdxToRemoveAfterMeasure |-> o.numOfTgates,
              layerC |-> << >>, opt |-> o, perm |-> None, threw |-> FALSE]

\* the size is taken before basis_permutation runs; layerC stays empty
CompileFrom(o, ancillaBegin, removeNonT) ==
    LET Absorbed(p) ==
            [circuit |-> p.circuit,
             startingIdxToRemoveAfterMeasure |-> Len(o.circuit) - p.numberOfCummutedGate,
             layerC |-> << >>, opt |-> o, perm |-> p, threw |-> p.threw]
    IN  IF removeNonT
        THEN Absorbed(basis_permutation(o.circuit, o.numOfTgates, ancillaBegin))
        ELSE [circuit |-> o.circuit,
              startingIdxToRemoveAfterMeasure |-> Len(o.circuit),
              layerC |-> << >>, opt |-> o, perm |-> None, threw |-> FALSE]

\* layer is not read: the call of reduceLayerGreedyAlgo under if (layer) is
\* commented out
runLysCompiler(circ, ancillaBegin, removeNonT, layer, tmo, wild) ==
    CompileFrom(optimizeRotation(circ, tmo, wild), ancillaBegin, removeNonT)

\* ------------------------------------------------------------------------
\* Inputs
\* ------------------------------------------------------------------------
X(q) == [x |-> {BitOf(q)}, z |-> {}]
Z(q) == [x |-> {}, z |-> {BitOf(q)}]
Y(q) == [x |-> {BitOf(q)}, z |-> {BitOf(q)}]
Id == [x |-> {}, z |-> {}]
Mul(p, r) == [x |-> Xor(p.x, r.x), z |-> Xor(p.z, r.z)]

Rot(angle, p) == Rotation(angle, p.x, p.z, 0)
Mea(phase, p) == Measure(phase, p.x, p.z, << >>, 0)

\* the objects of a circuit are distinct: position i of the input gets id i
Tagged(ops) == [i \in 1 .. Len(ops) |-> [ops[i] EXCEPT !.id = i]]

SeqsUpTo(S, n) == UNION { [1 .. k -> S] : k \in 0 .. n }

\* seed repeated cyclically up to length n
Cyclic(seed, n) == [i \in 1 .. n |-> seed[((i - 1) % Len(seed)) + 1]]

Copies(op, n) == [i \in 1 .. n |-> op]

HasMeasure(circ) == \E i \in 1 .. Len(circ) : ~isRotation(circ[i])

\* values the unchecked read of .angle can take; it only happens when a T
\* rotation has a Measure somewhere to its left
WildAngles(circ) == IF HasMeasure(circ) THEN {-2, 0, 2} ELSE {0}

PushAlphabet ==
    { Rot(1, X(0)), Rot(-1, Z(0)), Rot(1, X(1)), Rot(-1, Y(0)),
      Rot(2, Z(0)), Rot(-2, X(0)), Rot(0, Z(0)), Rot(2, Mul(Y(0), Z(1))),
      Rot(1, Id), Mea(TRUE, Z(0)), Mea(FALSE, X(1)) }

PushSeeds ==
    { << Rot(2, Z(0)), Rot(1, X(0)) >>,
      << Rot(1, X(0)), Rot(-2, X(0)), Rot(-1, Z(0)) >>,
      << Rot(-1, Y(0)), Rot(0, Z(0)), Mea(TRUE, Z(0)), Rot(1, X(1)) >>,
      << Rot(1, X(0)) >>,
      << Rot(2, Z(0)) >> }

\* sizes at which pushTForward starts with two and with three workers
BigPushLens ==
    { k * GatesPerThread + e : k \in {2, 3}, e \in 0 .. MaxExtra }

\* T rotations first or last, by the hundred, around other operations
PushBlocks ==
    { Copies(Rot(1, X(0)), a * GatesPerThread)
        \o Cyclic(<< Rot(2, Z(0)), Rot(-1, Y(0)), Mea(TRUE, Z(0)) >>,
                  GatesPerThread + e)
        \o Copies(Rot(1, X(0)), b * GatesPerThread)
        \o Copies(Rot(2, X(1)), c * GatesPerThread) :
          a \in 0 .. 1, b \in 0 .. 1, c \in 0 .. 1, e \in 0 .. MaxExtra }

PushInputs ==
    { Tagged(c) : c \in SeqsUpTo(PushAlphabet, MaxLen) }
      \cup { Tagged(Cyclic(seed, n)) : seed \in PushSeeds, n \in BigPushLens }
      \cup { Tagged(c) : c \in PushBlocks }

\* ------------------------------------------------------------------------
\* State
\* ------------------------------------------------------------------------
VARIABLES circuit, ancillaBegin, input, pc, ret, layers, opt, perm, threads

vars == << circuit, ancillaBegin, input, pc, ret, layers, opt, perm, threads >>

InitWith(inputs, ancillas) ==
    /\ input \in inputs
    /\ circuit = input
    /\ ancillaBegin \in ancillas
    /\ pc = "ready"
    /\ ret = -1
    /\ layers = << >>
    /\ opt = None
    /\ perm = None
    /\ threads = None

\* ------------------------------------------------------------------------
\* T-forwarding pass
\* ------------------------------------------------------------------------
\* opt keeps the arguments of the calls of implementationPushTForward
PushTForward ==
    /\ pc = "ready"
    /\ \E wild \in WildAngles(circuit) :
         \E r \in { pushTForward(circuit, wild) } :
             /\ circuit' = r.gates
             /\ ret' = r.split
             /\ opt' = [exit |-> "pushed", rounds |-> r.rounds]
    /\ pc' = "pushed"
    /\ UNCHANGED << ancillaBegin, input, layers, perm, threads >>

\* pushTForward once more, on the circuit the first call left; opt keeps
\* what the first call returned
PushTForwardAgain ==
    /\ pc = "pushed"
    /\ \E wild \in WildAngles(circuit) :
         \E r \in { pushTForward(circuit, wild) } :
             /\ circuit' = r.gates
             /\ ret' = r.split
             /\ opt' = [exit |-> "pushed", rounds |-> r.rounds,
                        gates |-> circuit, split |-> ret]
    /\ pc' = "pushedTwice"
    /\ UNCHANGED << ancillaBegin, input, layers, perm, threads >>

InitPush == InitWith(PushInputs, {numQubits})

NextPush == PushTForward \/ PushTForwardAgain

SpecPush == InitPush /\ [][NextPush]_vars

\* ------------------------------------------------------------------------
\* Properties of the T-forwarding pass
\* ------------------------------------------------------------------------
IdsOf(ops) == [i \in 1 .. Len(ops) |-> ops[i].id]

IsT(op) == isTgate(op)
IsNonT(op) == ~isTgate(op)

TOrder(ops) == IdsOf(SelectSeq(ops, IsT))
NonTOrder(ops) == IdsOf(SelectSeq(ops, IsNonT))

TCount(ops) == Len(SelectSeq(ops, IsT))

\* some T rotation of the sequence has a non-T operation to its left
Unsorted(ops) ==
    \E i, j \in 1 .. Len(ops) : i < j /\ ~isTgate(ops[i]) /\ isTgate(ops[j])

\* C1: after pushTForward returns split k, every operation at an index in
\* [0,k) is a T rotation and every operation at an index in [k,end) is not.
C1_SplitSeparatesT ==
    pc = "pushed" =>
        /\ ret \in 0 .. Len(circuit)
        /\ \A i \in 0 .. Len(circuit) - 1 :
             (i < ret) <=> isTgate(At(circuit, i))

\* a run that went through two parallel rounds and had T rotations to move
C1_Witness ==
    /\ pc = "pushed"
    /\ Len(input) >= 3 * GatesPerThread
    /\ Unsorted(input)
    /\ ret > 0 /\ ret < Len(circuit)

\* C2: the T rotations keep their input order among themselves, and so do
\* the non-T operations, over the parallel rounds and the final serial run.
C2_OrderPreserved ==
    pc = "pushed" =>
        /\ TOrder(circuit) = TOrder(input)
        /\ NonTOrder(circuit) = NonTOrder(input)

\* at least two T rotations were moved across at least two non-T operations,
\* one of them a Measure, in a run that started with parallel workers
C2_Witness ==
    /\ pc = "pushed"
    /\ Len(input) >= 2 * GatesPerThread
    /\ Unsorted(input)
    /\ HasMeasure(input)
    /\ Len(TOrder(circuit)) >= 2
    /\ Len(NonTOrder(circuit)) >= 2
    /\ circuit # input

\* ------------------------------------------------------------------------
\* Layer partitioning
\* ------------------------------------------------------------------------
LayerAlphabet ==
    { Rot(1, X(0)), Rot(2, Z(0)), Rot(-1, X(1)), Rot(2, Mul(Y(0), Z(1))),
      Mea(TRUE, Z(0)), Mea(FALSE, X(1)) }

LayerSeeds ==
    { << Rot(1, X(0)), Rot(1, X(1)), Rot(2, Z(0)), Rot(-1, Z(1)) >>,
      << Rot(1, X(0)), Rot(2, Z(0)), Rot(-1, Y(0)) >>,
      << Rot(2, Z(0)), Rot(1, Z(1)), Rot(-1, X(0)), Rot(2, X(1)), Rot(1, Z(2)),
         Rot(1, Y(2)), Mea(TRUE, Z(0)) >>,
      << Rot(1, X(0)), Rot(2, X(1)), Rot(-1, X(2)) >>,
      << Rot(1, X(0)), Rot(-2, Z(0)) >> }

\* sizes just above the threshold of the parallel rounds, and sizes at which
\* a first round can leave more than LayerParallelMin layers
BigLayerLens ==
    { k * LayerParallelMin + 1 + e : k \in {1, 3}, e \in 0 .. MaxExtra }

LayerInputs ==
    { Tagged(c) : c \in SeqsUpTo(LayerAlphabet, MaxLayerLen) }
      \cup { Tagged(Cyclic(seed, n)) : seed \in LayerSeeds, n \in BigLayerLens }

\* reduceLayerGreedyAlgo on the whole circuit
ReduceLayerGreedyAlgo ==
    /\ pc = "ready"
    /\ \E r \in { reduceLayerGreedyAlgo(circuit) } :
           /\ layers' = r.layers
           /\ opt' = [exit |-> "layered", rounds |-> r.rounds]
    /\ pc' = "layered"
    /\ UNCHANGED << circuit, ancillaBegin, input, ret, perm, threads >>

\* reduceLayerGreedyAlgoThread on the circuit with one gate per layer
ReduceLayerGreedyAlgoThread ==
    /\ pc = "ready"
    /\ \E r \in { reduceLayerGreedyAlgoThread(OneGatePerLayer(circuit), FALSE) } :
           /\ layers' = r.layers
           /\ ret' = IF r.change THEN 1 ELSE 0
    /\ pc' = "layeredThread"
    /\ UNCHANGED << circuit, ancillaBegin, input, opt, perm, threads >>

InitLayer == InitWith(LayerInputs, {numQubits})

NextLayer == ReduceLayerGreedyAlgo \/ ReduceLayerGreedyAlgoThread

SpecLayer == InitLayer /\ [][NextLayer]_vars

Layered == pc \in {"layered", "layeredThread"}

\* the operations of the partition, each with the number of its layer
Placed ==
    Flatten([k \in 1 .. Len(layers) |->
                [m \in 1 .. Len(layers[k]) |-> [op |-> layers[k][m], layer |-> k]]])

\* number of layers holding more than one operation
MergedLayers == Cardinality({ k \in 1 .. Len(layers) : Len(layers[k]) > 1 })

\* C4: every input operation is in exactly one layer, and two operations
\* that do not commute lie in different layers, the one that came first in
\* the input in the earlier layer.
C4_DependencyOrder ==
    Layered =>
        LET placed == Placed
        IN  /\ Len(placed) = Len(input)
            /\ \A i \in 1 .. Len(input) :
                 \E p \in 1 .. Len(placed) : placed[p].op = input[i]
            /\ \A p, q \in 1 .. Len(placed) :
                 (/\ placed[p].op.id < placed[q].op.id
                  /\ ~isCommute(placed[p].op, placed[q].op))
                     => placed[p].layer < placed[q].layer

\* the parallel rounds merged layers of a circuit holding non-commuting pairs
C4_Witness ==
    /\ pc = "layered"
    /\ Len(input) > LayerParallelMin
    /\ MergedLayers >= 2
    /\ Len(layers) >= 2
    /\ \E i, j \in 1 .. Len(input) : i < j /\ ~isCommute(input[i], input[j])

\* C5: within each layer every pair of operations commutes.
C5_LayerCommutes ==
    Layered =>
        \A k \in 1 .. Len(layers) :
            \A m, n \in 1 .. Len(layers[k]) :
                m # n => isCommute(layers[k][m], layers[k][n])

\* a layer of three or more operations was built
C5_Witness ==
    /\ Layered
    /\ \E k \in 1 .. Len(layers) : Len(layers[k]) >= 3
    /\ Len(layers) >= 2

\* ------------------------------------------------------------------------
\* optimizeRotation
\* ------------------------------------------------------------------------
OptAlphabet ==
    { Rot(1, X(0)), Rot(-1, X(0)), Rot(1, Z(0)), Rot(1, X(1)),
      Rot(2, X(0)), Rot(-2, X(0)), Rot(0, X(0)), Mea(TRUE, Z(0)) }

CopiedRotations ==
    { Rot(1, X(0)), Rot(-1, Mul(Y(0), Z(1))), Rot(2, X(0)), Rot(-2, Z(1)) }

\* more than LayerParallelMin T rotations, so that layers are merged and the
\* rotations of a layer combined
OptSeeds ==
    { << Rot(1, X(0)), Rot(1, X(1)), Rot(1, X(2)) >>,
      << Rot(1, X(0)), Rot(1, X(1)) >>,
      << Rot(1, X(0)), Rot(-1, Z(1)), Rot(2, Z(0)), Rot(1, X(1)) >>,
      << Rot(1, X(0)), Rot(1, X(1)), Mea(TRUE, Z(0)), Rot(-1, X(0)), Rot(1, X(2)) >>,
      << Rot(2, X(0)), Rot(2, X(1)), Rot(1, X(2)) >> }

BigOptLens == { 2 * GatesPerThread + 7 + e : e \in 0 .. MaxExtra }

OptInputs ==
    { Tagged(c) : c \in SeqsUpTo(OptAlphabet, MaxLen) }
      \cup { Tagged(Copies(op, n)) : op \in CopiedRotations, n \in 1 .. MaxCopies }
      \cup { Tagged(Cyclic(seed, n)) : seed \in OptSeeds, n \in BigOptLens }

\* the clock reads at which time_out can be found reached
Timeouts ==
    { NoTimeout } \cup { << i, c >> : i \in 1 .. MaxTimeoutIter, c \in 1 .. 3 }

\* a clock read is at or after another
AtOrAfter(a, b) == b[1] < a[1] \/ (b[1] = a[1] /\ b[2] <= a[2])

\* the cap is already exceeded when the loop is entered
DuringStepOne == << 0, 1 >>

\* startTime1 is taken on entry and never read: elapsed_loop adds up the
\* time spent between the reads of the loop only, so it reaches time_out no
\* earlier than the time since the call does.  The values name the first
\* read at which the time since the call is found over time_out.
SinceCall(tmo) ==
    { late \in {NoTimeout, DuringStepOne} \cup (Timeouts \ {NoTimeout}) :
        tmo # NoTimeout => (late # NoTimeout /\ AtOrAfter(tmo, late)) }

\* opt keeps the clock's readings next to what the call reports
OptimizeRotation ==
    /\ pc = "ready"
    /\ \E tmo \in Timeouts, wild \in WildAngles(circuit) :
         \E r \in { optimizeRotation(circuit, tmo, wild) } :
           \E late \in SinceCall(tmo) :
             /\ circuit' = r.circuit
             /\ ret' = r.numOfTgates
             /\ opt' = [exit |-> r.exit, iterations |-> r.iterations,
                        prefixSizes |-> r.prefixSizes, step1 |-> r.step1,
                        timeOut |-> tmo, sinceCall |-> late]
    /\ pc' = "optimized"
    /\ UNCHANGED << ancillaBegin, input, layers, perm, threads >>

InitOpt == InitWith(OptInputs, {numQubits})

NextOpt == OptimizeRotation

SpecOpt == InitOpt /\ [][NextOpt]_vars

\* ------------------------------------------------------------------------
\* optimizeRotation, one iteration of its loop at a time, time_out never
\* reached
\* ------------------------------------------------------------------------
\* step 1, and the declarations in front of the loop
EnterLoop ==
    /\ pc = "ready"
    /\ circuit' = CombineAdjacent(circuit)
    /\ opt' = [exit |-> "loop", changedFlag |-> TRUE, pushedBackNonT |-> << >>,
               numOfTgates |-> 0, iterations |-> 0]
    /\ pc' = "while"
    /\ UNCHANGED << ancillaBegin, input, ret, layers, perm, threads >>

\* while (changedFlag), found true
LoopTest ==
    /\ pc = "while"
    /\ opt.changedFlag
    /\ pc' = "body"
    /\ UNCHANGED << circuit, ancillaBegin, input, ret, layers, opt, perm, threads >>

\* one pass through the body of the loop; iterations stops counting at 2
LoopBody ==
    /\ pc = "body"
    /\ \E wild \in WildAngles(circuit) :
         \E pushed \in { pushTForward(circuit, wild) } :
           \E fuse \in { CombineLayers(
                             reduceLayerGreedyAlgo(
                                 Slice(pushed.gates, 0, pushed.split)).layers) } :
             /\ circuit' = Flatten(fuse.layers)
             /\ opt' = [exit |-> "loop",
                        changedFlag |-> fuse.changed,
                        pushedBackNonT |->
                            Slice(pushed.gates, pushed.split, Len(pushed.gates))
                                \o opt.pushedBackNonT,
                        numOfTgates |-> pushed.split,
                        iterations |-> IF opt.iterations < 2
                                       THEN opt.iterations + 1 ELSE 2]
    /\ pc' = "while"
    /\ UNCHANGED << ancillaBegin, input, ret, layers, perm, threads >>

\* while (changedFlag), found false: the tail is appended and the count
\* returned
LoopExit ==
    /\ pc = "while"
    /\ ~opt.changedFlag
    /\ circuit' = circuit \o opt.pushedBackNonT
    /\ ret' = Len(circuit)
    /\ opt' = [opt EXCEPT !.exit = "fixpoint"]
    /\ pc' = "loopDone"
    /\ UNCHANGED << ancillaBegin, input, layers, perm, threads >>

InitLoop == InitWith(OptInputs, {numQubits})

NextLoop == EnterLoop \/ LoopTest \/ LoopBody \/ LoopExit

SpecLoop == InitLoop /\ [][NextLoop]_vars

\* the thread that runs optimizeRotation goes on to its next statement
Advance ==
    /\ pc \in {"ready", "while", "body"}
    /\ \E next \in {"while", "body", "loopDone"} : next # pc /\ pc' = next

\* optimizeRotation is straight-line code run by one thread, which is never
\* suspended for ever: as long as it has not returned, it moves on
SpecLoopFair == SpecLoop /\ WF_pc(Advance)

\* ------------------------------------------------------------------------
\* Properties of optimizeRotation
\* ------------------------------------------------------------------------
Optimized == pc = "optimized"

\* C3 as stated: the number of T rotations after optimizeRotation equals the
\* number in the input.
C3_TCountPreserved ==
    Optimized => TCount(circuit) = TCount(input)

\* C3, amended: optimizeRotation creates no T rotation: the circuit it leaves
\* holds at most as many T rotations as its input.
C3_NoTCreated ==
    Optimized => TCount(circuit) <= TCount(input)

\* T rotations were combined inside a merged layer, in a run that went
\* through the loop more than once and ended without a timeout
C3_Witness ==
    /\ Optimized
    /\ opt.exit = "fixpoint"
    /\ opt.iterations >= 2
    /\ TCount(circuit) > 0
    /\ TCount(circuit) < TCount(input)

\* C6 as stated: on every exit path the returned value is the number of T
\* rotations of the final circuit, which all lie in front of index ret, with
\* no T rotation from ret on.
C6_ReturnIsTCount ==
    Optimized =>
        /\ ret = TCount(circuit)
        /\ \A i \in 0 .. Len(circuit) - 1 :
             (i < ret) <=> isTgate(At(circuit, i))

\* the operations of ops are copies of one rotation
SameRotation(ops) ==
    \A i \in 1 .. Len(ops) :
        /\ isRotation(ops[i])
        /\ [ops[i] EXCEPT !.id = 0] = [ops[1] EXCEPT !.id = 0]

\* C7 as stated: 8k copies of one T rotation, and 4k copies of one Clifford
\* rotation, are optimized to the empty circuit.
C7_CopiesVanish ==
    (/\ Optimized
     /\ opt.exit = "fixpoint"
     /\ Len(input) > 0
     /\ SameRotation(input)
     /\ \/ isTgate(input[1]) /\ Len(input) % 8 = 0
        \/ ~isIdentity(input[1]) /\ Abs(input[1].angle) = 2 /\ Len(input) % 4 = 0)
        => circuit = << >>

\* ------------------------------------------------------------------------
\* Measurement absorber and full pipeline
\* ------------------------------------------------------------------------
\* with ancillaBegin = 2: rotations on data only, on ancillas only and on
\* both; measurements of a data qubit and of either ancilla; a measurement
\* of qubit 1 with one rotation controlled on its outcome
ControlledMeasure ==
    Measure(TRUE, {}, {BitOf(1)}, << Rotation(1, {}, {BitOf(0)}, 0) >>, 0)

AbsorbAlphabet ==
    { Rot(2, X(0)), Rot(-2, Z(0)), Rot(2, X(2)), Rot(2, Mul(X(0), Z(2))),
      Rot(1, Z(1)), Mea(TRUE, X(0)), Mea(TRUE, X(2)), Mea(FALSE, Z(3)),
      ControlledMeasure }

AbsorbInputs == { Tagged(c) : c \in SeqsUpTo(AbsorbAlphabet, MaxAbsorbLen) }

\* no expiry, and expiry found at the first check of the first iteration
AbsorbTimeouts == { NoTimeout, << 1, 1 >> }

PermRecord(p) ==
    [exit |-> "done", before |-> p.before, numOfTGates |-> p.numOfTGates,
     moveRotationSet |-> p.moveRotationSet,
     deleteRotationSet |-> p.deleteRotationSet,
     numberOfCummutedGate |-> p.numberOfCummutedGate,
     stoppedAt |-> p.stoppedAt, idxGate |-> p.idxGate]

\* a direct call, as the unit test makes it: basis_permutation(0)
BasisPermutation ==
    /\ pc = "ready"
    /\ \E p \in { basis_permutation(circuit, 0, ancillaBegin) } :
           /\ circuit' = p.circuit
           /\ perm' = PermRecord(p)
           /\ ret' = IF p.threw THEN -1 ELSE p.numberOfCummutedGate
           /\ pc' = IF p.threw THEN "threw" ELSE "permuted"
    /\ UNCHANGED << ancillaBegin, input, layers, opt, threads >>

RunLysCompiler ==
    /\ pc = "ready"
    /\ \E removeNonT \in BOOLEAN, layer \in BOOLEAN, tmo \in AbsorbTimeouts,
          wild \in WildAngles(circuit) :
         \E r \in { runLysCompiler(circuit, ancillaBegin, removeNonT, layer,
                                   tmo, wild) } :
             /\ circuit' = r.circuit
             /\ layers' = r.layerC
             /\ opt' = [exit |-> r.opt.exit, iterations |-> r.opt.iterations,
                        prefixSizes |-> r.opt.prefixSizes, step1 |-> r.opt.step1,
                        removeNonT |-> removeNonT, layer |-> layer]
             /\ perm' = IF removeNonT THEN PermRecord(r.perm) ELSE None
             /\ ret' = IF r.threw THEN -1 ELSE r.startingIdxToRemoveAfterMeasure
             /\ pc' = IF r.threw THEN "threw" ELSE "compiled"
    /\ UNCHANGED << ancillaBegin, input, threads >>

InitAbsorb == InitWith(AbsorbInputs, {2, numQubits})

NextAbsorb == BasisPermutation \/ RunLysCompiler

SpecAbsorb == InitAbsorb /\ [][NextAbsorb]_vars

\* ------------------------------------------------------------------------
\* Properties of the measurement absorber
\* ------------------------------------------------------------------------
\* basis_permutation has returned, by itself or inside runLysCompiler
Permuted == pc = "permuted" \/ (pc = "compiled" /\ perm # None)

\* the operations of circ at the 0-based indices in S, in increasing order
PickIn(circ, S) ==
    LET In(i) == i \in S
    IN  PickGates(circ, SelectSeq([k \in 1 .. Len(circ) |-> k - 1], In))

Handled == perm.moveRotationSet \cup perm.deleteRotationSet

\* C8 as stated: when absorption is requested, the index runLysCompiler
\* returns is the length of the final circuit minus the number of moved
\* rotations, and the operations from that index on are the moved rotations.
C8_SplitIsLengthMinusMoved ==
    (pc = "compiled" /\ perm # None) =>
        /\ ret = Len(circuit) - Cardinality(perm.moveRotationSet)
        /\ IdsOf(Slice(circuit, ret, Len(circuit)))
             = IdsOf(PickIn(perm.before, perm.moveRotationSet))

AncillaBits == { BitOf(q) : q \in ancillaBegin .. numQubits - 1 }

MeasuredBits ==
    UNION { Support(At(perm.before, i)) :
              i \in perm.idxGate + 1 .. Len(perm.before) - 1 }

\* C10 as stated: a scanned rotation that acts on ancillas only, or on data
\* and ancillas, and touches an ancilla no measurement acts on, stays where
\* it is, and so does everything to its left.
C10_DoNothingPolicy ==
    Permuted =>
        \A i \in perm.numOfTGates .. perm.idxGate :
            ( /\ perm.stoppedAt <= i
              /\ isRotation(At(perm.before, i))
              /\ (Support(At(perm.before, i)) \cap AncillaBits) \ MeasuredBits # {} )
            => /\ \A j \in 0 .. i : j \notin Handled
               /\ Slice(circuit, 0, i + 1) = Slice(perm.before, 0, i + 1)

\* C11 as stated: an absorbed rotation is deleted exactly when it acts on
\* ancillas only and every ancilla it acts on is in the union of the supports
\* of the trailing measurements; every other absorbed rotation is moved.
C11_DeletedIffCovered ==
    Permuted =>
        \A i \in Handled :
            isRotation(At(perm.before, i)) =>
                /\ i \in perm.deleteRotationSet
                     <=> /\ blockAction(At(perm.before, i), ancillaBegin) = "a"
                         /\ (Support(At(perm.before, i)) \cap AncillaBits)
                               \subseteq MeasuredBits
                /\ i \in perm.moveRotationSet <=> i \notin perm.deleteRotationSet

\* C12 as stated: a trailing measurement ends as the result of the absorbed
\* rotations acting on it one after the other, from the last one scanned
\* first: a rotation that does not commute with it rewrites it, and one that
\* commutes with it rewrites those of its controlled rotations that do not
\* commute with the rotation.
C12_ControlledRewritten ==
    Permuted =>
        LET Step(M, R) ==
                IF ~isCommute(R, M) THEN applyCommutationRM(R, M)
                ELSE [M EXCEPT !.rotations = RewriteControlled(R, M.rotations)]
            RECURSIVE Carried(_, _)
            Carried(M, idxR) ==
                IF idxR \notin Handled THEN M
                ELSE Carried(Step(M, ScannedRotation(At(perm.before, idxR))),
                             idxR - 1)
        IN  \A m \in perm.idxGate + 1 .. Len(perm.before) - 1 :
                At(circuit, m - Cardinality(Handled))
                    = Carried(At(perm.before, m), perm.idxGate)

\* ------------------------------------------------------------------------
\* applyCommutation by itself
\* ------------------------------------------------------------------------
\* the Pauli strings on the first MaxPauliQubits qubits
PauliStrings ==
    LET bits == { BitOf(q) : q \in 0 .. MaxPauliQubits - 1 }
    IN  { [x |-> sx, z |-> sz] : sx \in SUBSET bits, sz \in SUBSET bits }

\* first operand: Pauli, Clifford and T rotations
CommuteFirst == { Rot(a, p) : a \in {0, 2, -2, 1}, p \in PauliStrings }

\* second operand: rotations, measurements, and measurements that carry a
\* controlled rotation
CommuteSecond ==
    { Rot(a, p) : a \in {1, -1, 2, -2, 0}, p \in PauliStrings }
      \cup { Mea(ph, p) : ph \in BOOLEAN, p \in PauliStrings }
      \cup { Measure(TRUE, p.x, p.z, << Rot(a, c) >>, 0) :
                 p \in PauliStrings, a \in {1, -2}, c \in {X(0), Z(0)} }

CommuteInputs == { Tagged(<< A, B >>) : A \in CommuteFirst, B \in CommuteSecond }

\* applyCommutation(circuit[0], circuit[1]), called as its callers call it,
\* on operands that do not commute; the result replaces the second operand
ApplyCommutation ==
    /\ pc \in {"ready", "rewritten"}
    /\ ~isCommute(circuit[1], circuit[2])
    /\ IF isRotation(circuit[2])
       THEN /\ circuit' = << circuit[1], applyCommutationRR(circuit[1], circuit[2]) >>
            /\ pc' = IF pc = "ready" THEN "rewritten" ELSE "rewrittenTwice"
       ELSE IF applyCommutationThrows(circuit[1])
       THEN /\ circuit' = circuit
            /\ pc' = "threw"
       ELSE /\ circuit' = << circuit[1], applyCommutationRM(circuit[1], circuit[2]) >>
            /\ pc' = IF pc = "ready" THEN "rewritten" ELSE "rewrittenTwice"
    /\ UNCHANGED << ancillaBegin, input, ret, layers, opt, perm, threads >>

\* combineGate(circuit[0], circuit[1]); the rotations it returns replace the
\* two operands
CombineGate ==
    /\ pc = "ready"
    /\ \E r \in { combineGate(circuit[1], circuit[2]) } :
           /\ circuit' = r.rots
           /\ ret' = IF r.combined THEN 1 ELSE 0
    /\ pc' = "combined"
    /\ UNCHANGED << ancillaBegin, input, layers, opt, perm, threads >>

InitCommute == InitWith(CommuteInputs, {numQubits})

NextCommute == ApplyCommutation \/ CombineGate

SpecCommute == InitCommute /\ [][NextCommute]_vars

\* ------------------------------------------------------------------------
\* Operation::isCommute by itself
\* ------------------------------------------------------------------------
\* rotations and measurements about every Pauli string
IsCommuteOperands ==
    { Rot(a, p) : a \in {1, 2}, p \in PauliStrings }
      \cup { Mea(ph, p) : ph \in BOOLEAN, p \in PauliStrings }

IsCommuteInputs ==
    { Tagged(<< A, B >>) : A \in IsCommuteOperands, B \in IsCommuteOperands }

\* circuit[0].isCommute(circuit[1]) and circuit[1].isCommute(circuit[0])
IsCommute ==
    /\ pc = "ready"
    /\ pc' = "asked"
    /\ opt' = [exit |-> "asked",
               forth |-> isCommute(circuit[1], circuit[2]),
               back |-> isCommute(circuit[2], circuit[1])]
    /\ UNCHANGED << circuit, ancillaBegin, input, ret, layers, perm, threads >>

InitIsCommute == InitWith(IsCommuteInputs, {numQubits})

NextIsCommute == IsCommute

SpecIsCommute == InitIsCommute /\ [][NextIsCommute]_vars

\* ------------------------------------------------------------------------
\* noOrderingRotationCombination by itself
\* ------------------------------------------------------------------------
ReduceAlphabet ==
    { Rot(a, p) : a \in {0, 1, -1, 2, -2}, p \in {Id, X(0), Z(0), X(1)} }

MutuallyCommute(ops) ==
    \A i, j \in 1 .. Len(ops) : isCommute(ops[i], ops[j])

\* the rotations of a layer: each commutes with each
ReduceInputs ==
    { Tagged(c) : c \in { l \in SeqsUpTo(ReduceAlphabet, MaxLen) : MutuallyCommute(l) } }

\* noOrderingRotationCombination(circuit)
NoOrderingRotationCombination ==
    /\ pc = "ready"
    /\ \E r \in { noOrderingRotationCombination(circuit) } :
           /\ circuit' = r.list
           /\ ret' = IF r.changed THEN 1 ELSE 0
    /\ pc' = "reduced"
    /\ UNCHANGED << ancillaBegin, input, layers, opt, perm, threads >>

InitReduce == InitWith(ReduceInputs, {numQubits})

NextReduce == NoOrderingRotationCombination

SpecReduce == InitReduce /\ [][NextReduce]_vars

\* ------------------------------------------------------------------------
\* implementationPushTForward with its workers as threads
\* ------------------------------------------------------------------------
\* circuit is the shared flattenGates.  threads holds the arguments of the
\* call, splitIndices, the number of workers joined so far and, for each
\* worker started, its range, its position in pushTForwardThread and its
\* local variables.  wrote and filled record the indices of flattenGates and
\* of splitIndices the worker has assigned to.
ThreadAlphabet == { Rot(1, X(0)), Rot(2, Z(0)), Mea(TRUE, Z(0)) }

ThreadInputs == { Tagged(c) : c \in SeqsUpTo(ThreadAlphabet, MaxThreadLen) }

WorkerCounts == {1, 2, 3}

Started == IF threads = None THEN {} ELSE 0 .. Len(threads.worker) - 1

\* threadsVector[threadIndex].join() returns once the worker has returned
JoinableAtOnce(worker) == TRUE

Joinable(worker) == worker.at = "done"

\* threadSplitIndices[threadOrderIndex] = value; return
Finish(idx, value) ==
    threads' = [threads EXCEPT !.splitIndices[idx + 1] = value,
                               !.worker[idx + 1].at = "done",
                               !.worker[idx + 1].filled = @ \cup {idx}]

\* the range of a call starts at the first or the second operation and ends
\* at the last or the last but one
CallImplementationPushTForward ==
    /\ pc = "ready"
    /\ \E numThreads \in WorkerCounts :
         \E begin \in {0, 1} \cap (0 .. Len(circuit)) :
           \E subsetEnd \in {Len(circuit) - 1, Len(circuit)} \cap (begin .. Len(circuit)) :
             threads' = [numThreads |-> numThreads, begin |-> begin,
                         subsetEnd |-> subsetEnd, joined |-> 0,
                         splitIndices |-> [i \in 1 .. numThreads |-> 0],
                         worker |-> << >>]
    /\ pc' = "starting"
    /\ UNCHANGED << circuit, ancillaBegin, input, ret, layers, opt, perm >>

\* the next std::thread is constructed and starts running
StartThread ==
    /\ pc = "starting"
    /\ threads' = [threads EXCEPT !.worker = Append(@,
                      [at |-> "entry",
                       beginIndex |-> PushSliceBegin(threads, Len(threads.worker)),
                       endIndex |-> PushSliceEnd(threads, Len(threads.worker)),
                       firstNontgateIndex |-> Len(circuit),
                       gateIndex |-> 0, pivot |-> 0,
                       wrote |-> {}, filled |-> {}])]
    /\ pc' = IF Len(threads.worker) + 1 = threads.numThreads
             THEN "joining" ELSE "starting"
    /\ UNCHANGED << circuit, ancillaBegin, input, ret, layers, opt, perm >>

\* the base case and the search for the first non-T of the range
WorkerFind ==
    /\ \E idx \in Started :
         LET w == At(threads.worker, idx)
             Found(first) ==
                 IF first > w.endIndex - 1 THEN Finish(idx, w.endIndex)
                 ELSE threads' = [threads EXCEPT
                          !.worker[idx + 1].at = "for",
                          !.worker[idx + 1].firstNontgateIndex = first,
                          !.worker[idx + 1].gateIndex = first + 1]
         IN  /\ w.at = "entry"
             /\ IF Len(circuit) = 0 THEN Finish(idx, 0)
                ELSE Found(FindFirstNonT(circuit, w.beginIndex, w.endIndex))
    /\ UNCHANGED << circuit, ancillaBegin, input, pc, ret, layers, opt, perm >>

\* the test of the for loop and of the operation at gateIndex
WorkerFor ==
    /\ \E idx \in Started :
         LET w == At(threads.worker, idx)
         IN  /\ w.at = "for"
             /\ IF w.gateIndex >= w.endIndex
                THEN Finish(idx, w.firstNontgateIndex)
                ELSE IF isTgate(At(circuit, w.gateIndex))
                THEN threads' = [threads EXCEPT
                         !.worker[idx + 1].at = "while",
                         !.worker[idx + 1].pivot = w.gateIndex]
                ELSE threads' = [threads EXCEPT
                         !.worker[idx + 1].gateIndex = w.gateIndex + 1]
    /\ UNCHANGED << circuit, ancillaBegin, input, pc, ret, layers, opt, perm >>

\* one turn of while (pivot > firstNontgateIndex), or the end of the loop
WorkerWhile ==
    \E idx \in Started :
        LET w == At(threads.worker, idx)
        IN  /\ w.at = "while"
            /\ IF w.pivot > w.firstNontgateIndex
               THEN /\ \E wild \in WildAngles(<< At(circuit, w.pivot - 1) >>) :
                         circuit' = SwapLeft(circuit, w.pivot, wild)
                    /\ threads' = [threads EXCEPT
                           !.worker[idx + 1].pivot = w.pivot - 1,
                           !.worker[idx + 1].wrote = @ \cup {w.pivot - 1, w.pivot}]
               ELSE /\ threads' = [threads EXCEPT
                           !.worker[idx + 1].at = "for",
                           !.worker[idx + 1].firstNontgateIndex = w.firstNontgateIndex + 1,
                           !.worker[idx + 1].gateIndex = w.gateIndex + 1]
                    /\ circuit' = circuit
            /\ UNCHANGED << ancillaBegin, input, pc, ret, layers, opt, perm >>

\* the coordinator joins the workers in the order it started them
JoinThread ==
    /\ pc = "joining"
    /\ threads.joined < threads.numThreads
    /\ Joinable(At(threads.worker, threads.joined))
    /\ threads' = [threads EXCEPT !.joined = @ + 1]
    /\ UNCHANGED << circuit, ancillaBegin, input, pc, ret, layers, opt, perm >>

\* return {splitIndices[0], splitIndices[splitIndices.size() - 1]}
ReturnSplits ==
    /\ pc = "joining"
    /\ threads.joined = threads.numThreads
    /\ ret' = << threads.splitIndices[1], threads.splitIndices[threads.numThreads] >>
    /\ pc' = "returned"
    /\ UNCHANGED << circuit, ancillaBegin, input, layers, opt, perm, threads >>

InitThreads == InitWith(ThreadInputs, {numQubits})

NextThreads ==
    \/ CallImplementationPushTForward
    \/ StartThread
    \/ WorkerFind
    \/ WorkerFor
    \/ WorkerWhile
    \/ JoinThread
    \/ ReturnSplits

\* the workers as threads on short circuits, and the two passes as a whole
\* on circuits long enough for their parallel rounds
InitParallel == InitThreads \/ InitPush \/ InitLayer

NextParallel ==
    \/ input \in ThreadInputs /\ NextThreads
    \/ input \in PushInputs /\ NextPush
    \/ input \in LayerInputs /\ NextLayer

SpecParallel == InitParallel /\ [][NextParallel]_vars

\* ------------------------------------------------------------------------
\* Operation(vector<char>, vector<int>), Rotation(int, vector<char>, vector<int>)
\* ------------------------------------------------------------------------
RECURSIVE TwoToThe(_)
TwoToThe(e) == IF e = 0 THEN 1 ELSE 2 * TwoToThe(e - 1)

\* (int)pow(2, e): a negative exponent gives a fraction, which the cast
\* brings to 0
IntPow2(e) == IF e < 0 THEN 0 ELSE TwoToThe(e)

\* the sum the loop builds for the letters that set this basis
RECURSIVE BasisInteger(_, _, _, _)
BasisInteger(basis, qubits, letters, index) ==
    IF index > Len(basis) THEN 0
    ELSE (IF basis[index] \in letters
          THEN IntPow2(numQubits - 1 - qubits[index]) ELSE 0)
           + BasisInteger(basis, qubits, letters, index + 1)

\* bitset<numQubits>(value) keeps the low numQubits bits of value
BitsetOf(value) == { p \in Bits : (value \div TwoToThe(p)) % 2 = 1 }

\* the size test, then the loop, which throws on a letter other than x, y, z
VectorsThrow(basis, qubits) ==
    \/ Len(basis) # Len(qubits)
    \/ \E index \in 1 .. Len(basis) : basis[index] \notin {"x", "y", "z"}

OperationFromVectors(basis, qubits) ==
    [xBasis |-> BitsetOf(BasisInteger(basis, qubits, {"x", "y"}, 1)),
     zBasis |-> BitsetOf(BasisInteger(basis, qubits, {"z", "y"}, 1))]

RotationFromVectors(angle, basis, qubits) ==
    Rotation(angle, BitsetOf(BasisInteger(basis, qubits, {"x", "y"}, 1)),
             BitsetOf(BasisInteger(basis, qubits, {"z", "y"}, 1)), 0)

\* input holds the two vectors; the object built becomes the circuit
VectorInputs ==
    { << basis, qubits >> :
        basis \in SeqsUpTo({"x", "y", "z", "w"}, MaxVectorLen),
        qubits \in SeqsUpTo(-1 .. numQubits, MaxVectorLen) }

ConstructOperation ==
    /\ pc = "ready"
    /\ IF VectorsThrow(input[1], input[2])
       THEN circuit' = << >> /\ pc' = "threw"
       ELSE /\ circuit' = << OperationFromVectors(input[1], input[2]) >>
            /\ pc' = "constructed"
    /\ UNCHANGED << ancillaBegin, input, ret, layers, opt, perm, threads >>

ConstructRotation ==
    /\ pc = "ready"
    /\ \E angle \in {-1, 2} :
         IF VectorsThrow(input[1], input[2])
         THEN circuit' = << >> /\ pc' = "threw"
         ELSE /\ circuit' = << RotationFromVectors(angle, input[1], input[2]) >>
              /\ pc' = "constructed"
    /\ UNCHANGED << ancillaBegin, input, ret, layers, opt, perm, threads >>

InitConstruct == InitWith(VectorInputs, {numQubits})

NextConstruct == ConstructOperation \/ ConstructRotation

SpecConstruct == InitConstruct /\ [][NextConstruct]_vars

\* ------------------------------------------------------------------------
\* LysCompiler::LysCompiler
\* ------------------------------------------------------------------------
\* the guard the first and the third constructor start with
EmptyCircuitThrows(encoded_circuit) == Len(encoded_circuit) = 0

\* tempMeasure.zBasis = pow(2, numQubits - 1 - indexQubit): Z on qubit
\* indexQubit, with positive phase
DefaultMeasurements(numDefaultMeasurements) ==
    [k \in 1 .. numDefaultMeasurements |->
        Measure(TRUE, {}, BitsetOf(IntPow2(numQubits - 1 - (k - 1))), << >>, 0)]

CompilerAlphabet == { Rot(1, X(0)), Rot(2, Z(1)), Mea(TRUE, Z(0)) }

\* the empty circuit is one of them
CompilerInputs == SeqsUpTo(CompilerAlphabet, MaxLen)

\* LysCompiler(encoded_circuit)
ConstructCompiler ==
    /\ pc = "ready"
    /\ IF EmptyCircuitThrows(input)
       THEN circuit' = circuit /\ pc' = "threw"
       ELSE circuit' = input /\ pc' = "constructed"
    /\ opt' = [exit |-> "none", form |-> "circuit"]
    /\ UNCHANGED << ancillaBegin, input, ret, layers, perm, threads >>

\* LysCompiler(encoded_circuit, ancillaBegin): no guard
ConstructCompilerWithAncilla ==
    /\ pc = "ready"
    /\ circuit' = input
    /\ pc' = "constructed"
    /\ opt' = [exit |-> "none", form |-> "ancillaBegin"]
    /\ UNCHANGED << ancillaBegin, input, ret, layers, perm, threads >>

\* LysCompiler(numDefaultMeasurements, encoded_circuit)
ConstructCompilerWithMeasurements ==
    /\ pc = "ready"
    /\ \E numDefaultMeasurements \in 0 .. 2 :
         IF EmptyCircuitThrows(input)
         THEN circuit' = circuit /\ pc' = "threw"
         ELSE /\ circuit' = input \o DefaultMeasurements(numDefaultMeasurements)
              /\ pc' = "constructed"
    /\ opt' = [exit |-> "none", form |-> "numDefaultMeasurements"]
    /\ UNCHANGED << ancillaBegin, input, ret, layers, perm, threads >>

InitCompiler == InitWith(CompilerInputs, 0 .. numQubits)

NextCompiler ==
    \/ ConstructCompiler
    \/ ConstructCompilerWithAncilla
    \/ ConstructCompilerWithMeasurements

SpecCompiler == InitCompiler /\ [][NextCompiler]_vars

\* ------------------------------------------------------------------------
\* Every pass, each on the circuits of its own specification
\* ------------------------------------------------------------------------
InitPipeline == InitPush \/ InitLayer \/ InitOpt \/ InitAbsorb \/ InitCommute

NextPipeline ==
    \/ input \in PushInputs /\ NextPush
    \/ input \in LayerInputs /\ NextLayer
    \/ input \in OptInputs /\ NextOpt
    \/ input \in AbsorbInputs /\ NextAbsorb
    \/ input \in CommuteInputs /\ NextCommute

SpecPipeline == InitPipeline /\ [][NextPipeline]_vars

\* a pass has returned; Output is the sequence it left, the layers one after
\* the other for the layer partitioning
Returned == pc \notin {"ready", "threw"}

Output == IF Layered THEN Flatten(layers) ELSE circuit

IsMeasure(op) == ~isRotation(op)

MeasureOrder(ops) == IdsOf(SelectSeq(ops, IsMeasure))

\* C13: the measurements a pass leaves in the circuit are measurements of
\* its input and stand in the order they had there (position i of the input
\* carries id i).
C13_MeasureOrder ==
    Returned =>
        LET mo == MeasureOrder(Output)
        IN  \A k \in 1 .. Len(mo) :
                /\ mo[k] \in 1 .. Len(input)
                /\ input[mo[k]].id = mo[k]
                /\ IsMeasure(input[mo[k]])
                /\ k > 1 => mo[k - 1] < mo[k]

\* the whole pipeline moved a rotation behind two measurements
C13_Witness ==
    /\ pc = "compiled"
    /\ perm # None
    /\ Cardinality(perm.moveRotationSet) >= 1
    /\ Len(MeasureOrder(circuit)) >= 2
    /\ IdsOf(circuit) # IdsOf(input)

\* C14 as stated: the T-forwarding pass leaves every measurement as it was,
\* and every T rotation ends as the Rotation x Rotation rule makes it against
\* the non-T rotations it crossed, which are the ones that stood to its left
\* in the input, the nearest first; crossing a measurement changes nothing.
C14_MeasuresAreBarriers ==
    pc = "pushed" =>
        LET Cross(cur, prev) ==
                IF isRotation(prev) /\ ~isTgate(prev) /\ ~isCommute(cur, prev)
                THEN applyCommutationRR(prev, cur)
                ELSE cur
            RECURSIVE Crossed(_, _, _)
            Crossed(cur, lo, hi) ==
                IF ~isRotation(cur) \/ lo > hi THEN cur
                ELSE IF lo = hi THEN Cross(cur, input[lo])
                ELSE Crossed(Crossed(cur, (lo + hi) \div 2 + 1, hi),
                             lo, (lo + hi) \div 2)
        IN  \A i \in 1 .. Len(circuit) :
                /\ IsMeasure(circuit[i]) => circuit[i] = input[circuit[i].id]
                /\ isTgate(circuit[i])
                     => circuit[i] = Crossed(input[circuit[i].id], 1,
                                             circuit[i].id - 1)

\* ------------------------------------------------------------------------
\* Properties of applyCommutation
\* ------------------------------------------------------------------------
RewrittenTwice == pc = "rewrittenTwice"

\* B with its sign changed: the angle of a rotation, the phase of a
\* measurement
Negated(B) ==
    IF isRotation(B) THEN [B EXCEPT !.angle = 0 - B.angle]
    ELSE [B EXCEPT !.phase = ~B.phase]

\* a measurement's controlled rotations, those that do not commute with A
\* with their angle negated
NegatedControlled(A, rots) ==
    [i \in 1 .. Len(rots) |->
        IF ~isCommute(rots[i], A) THEN Negated(rots[i]) ELSE rots[i]]

\* C15 as stated: rewriting B twice by A, which does not commute with it,
\* gives B back when A is Clifford and B with its angle negated when A is
\* Pauli.
C15_TwiceAsStated ==
    (RewrittenTwice /\ (input[1].angle = 0 \/ Abs(input[1].angle) = 2)) =>
        IF Abs(input[1].angle) = 2
        THEN circuit[2] = input[2]
        ELSE circuit[2] = Negated(input[2])

\* C15, amended: rewriting B twice by A gives B back when A is Pauli; when A
\* is Clifford it gives B with its sign changed, the angle of a rotation or
\* the phase of a measurement, and with the angle negated of every
\* controlled rotation of B that does not commute with A.
C15_TwiceRestoresUpToSign ==
    (RewrittenTwice /\ (input[1].angle = 0 \/ Abs(input[1].angle) = 2)) =>
        IF input[1].angle = 0
        THEN circuit[2] = input[2]
        ELSE circuit[2]
               = [Negated(input[2]) EXCEPT
                     !.rotations = NegatedControlled(input[1], input[2].rotations)]

\* a Clifford rotation on two qubits was applied twice to a measurement on
\* two qubits, one of whose controlled rotations it does not commute with
C15_Witness ==
    /\ RewrittenTwice
    /\ Abs(input[1].angle) = 2
    /\ IsMeasure(input[2])
    /\ Cardinality(Support(input[1])) >= 2
    /\ Cardinality(Support(input[2])) >= 2
    /\ \E i \in 1 .. Len(input[2].rotations) :
           ~isCommute(input[2].rotations[i], input[1])
    /\ circuit[2] # input[2]

\* ------------------------------------------------------------------------
\* T-forwarding, run twice
\* ------------------------------------------------------------------------
\* C16: pushTForward on the circuit a first pushTForward left changes
\* nothing in the circuit and returns the same split index.
C16_PushIdempotent ==
    pc = "pushedTwice" =>
        /\ circuit = opt.gates
        /\ ret = opt.split

\* both calls started with parallel workers, and the first one had T
\* rotations to move across non-T operations, a Measure among them
C16_Witness ==
    /\ pc = "pushedTwice"
    /\ Len(input) >= 3 * GatesPerThread
    /\ Unsorted(input)
    /\ HasMeasure(input)
    /\ opt.gates # input
    /\ ret > 0 /\ ret < Len(circuit)

\* ------------------------------------------------------------------------
\* Angles
\* ------------------------------------------------------------------------
AngleInRange(op) == isRotation(op) => Abs(op.angle) <= 2

AnglesInRange(ops) ==
    \A i \in 1 .. Len(ops) :
        /\ AngleInRange(ops[i])
        /\ \A c \in 1 .. Len(ops[i].rotations) : AngleInRange(ops[i].rotations[c])

\* C17: the rotations of the input all having an angle between -2 and 2,
\* every rotation a pass leaves, in the circuit or among the controlled
\* rotations of a measurement, has an angle between -2 and 2.
C17_AngleBounded ==
    (Returned /\ AnglesInRange(input)) => AnglesInRange(Output)

\* optimizeRotation went through its loop more than once and left a
\* rotation of angle 2 or -2 where the input had T rotations only
C17_Witness ==
    /\ Optimized
    /\ opt.iterations >= 2
    /\ \A i \in 1 .. Len(input) : isTgate(input[i])
    /\ \E i \in 1 .. Len(circuit) : Abs(circuit[i].angle) = 2

\* ------------------------------------------------------------------------
\* Properties of the parallel passes
\* ------------------------------------------------------------------------
PushedRounds == pc \in {"pushed", "pushedTwice"}

\* C18: in a round of T-forwarding or of layer partitioning that uses more
\* than one worker, every worker is given at least 100 operations.
C18_SliceAtLeastHundred ==
    /\ PushedRounds =>
           \A k \in 1 .. Len(opt.rounds) :
               opt.rounds[k].numThreads > 1 =>
                   \A idxThread \in 0 .. opt.rounds[k].numThreads - 1 :
                       PushSliceEnd(opt.rounds[k], idxThread)
                         - PushSliceBegin(opt.rounds[k], idxThread) >= GatesPerThread
    /\ pc = "layered" =>
           \A k \in 1 .. Len(opt.rounds) :
               opt.rounds[k].numThreads > 1 =>
                   \A index \in 0 .. opt.rounds[k].numThreads - 1 :
                       opt.rounds[k].gates[index] >= GatesPerThread

\* the indices of flattenGates handed to worker idx
SliceOf(idx) ==
    At(threads.worker, idx).beginIndex .. At(threads.worker, idx).endIndex - 1

\* C19: the index ranges of the workers of a round are pairwise disjoint, in
\* a call of implementationPushTForward as in the rounds of pushTForward and
\* of reduceLayerGreedyAlgo; whatever the order in which the workers of
\* implementationPushTForward take their steps, each has assigned only to
\* indices of flattenGates inside its range and to its own entry of
\* splitIndices, and the operations outside every range are untouched.
C19_WorkersKeepToTheirSlices ==
    /\ \A i \in Started : \A j \in Started :
           i < j => At(threads.worker, i).endIndex <= At(threads.worker, j).beginIndex
    /\ \A i \in Started :
           /\ At(threads.worker, i).wrote \subseteq SliceOf(i)
           /\ At(threads.worker, i).filled \subseteq {i}
    /\ Started # {} =>
           \A g \in 0 .. Len(circuit) - 1 :
               (\A i \in Started : g \notin SliceOf(i)) => At(circuit, g) = At(input, g)
    /\ PushedRounds =>
           \A k \in 1 .. Len(opt.rounds) :
               \A i \in 0 .. opt.rounds[k].numThreads - 1 :
                   \A j \in i + 1 .. opt.rounds[k].numThreads - 1 :
                       PushSliceEnd(opt.rounds[k], i) <= PushSliceBegin(opt.rounds[k], j)
    /\ pc = "layered" =>
           \A k \in 1 .. Len(opt.rounds) :
               \A i \in 0 .. LayerThreads - 1 :
                   \A j \in i + 1 .. LayerThreads - 1 :
                       LayerSliceEnd(i, opt.rounds[k].numLayersInThread,
                                     opt.rounds[k].numLayers)
                         <= LayerSliceBegin(j, opt.rounds[k].numLayersInThread)

\* two workers are both in the middle of carrying a T rotation to the left,
\* each having already assigned to flattenGates
C19_Witness ==
    \E i \in Started : \E j \in Started :
        /\ i < j
        /\ At(threads.worker, i).at = "while" /\ At(threads.worker, i).wrote # {}
        /\ At(threads.worker, j).at = "while" /\ At(threads.worker, j).wrote # {}

C21_NoIterationAfterCap ==
    (Optimized /\ opt.sinceCall # NoTimeout) =>
        opt.iterations <= (IF opt.sinceCall[1] = 0 THEN 1 ELSE opt.sinceCall[1])

\* ------------------------------------------------------------------------
\* Properties of runLysCompiler
\* ------------------------------------------------------------------------
Compiled == pc = "compiled"

\* C22: called with layer set, runLysCompiler returns a non-empty list of
\* layers which, one after the other, make up the circuit it leaves; called
\* with layer not set, it returns an empty list.
C22_LayersWhenAsked ==
    Compiled =>
        IF opt.layer THEN layers # << >> /\ Flatten(layers) = circuit
        ELSE layers = << >>

\* C23: called with removeNonT not set, runLysCompiler returns the length of
\* the circuit it leaves as the index.
C23_SplitIsLength ==
    (Compiled /\ ~opt.removeNonT) => ret = Len(circuit)

\* runLysCompiler without removeNonT has left a circuit that holds a T
\* rotation followed by an operation that is not one
C23_Witness ==
    /\ Compiled
    /\ ~opt.removeNonT
    /\ Len(circuit) >= 2
    /\ isTgate(circuit[1])
    /\ ~isTgate(circuit[Len(circuit)])

\* ------------------------------------------------------------------------
\* Properties of the tail optimizeRotation appends
\* ------------------------------------------------------------------------
\* the operations behind the index optimizeRotation returns
AppendedTail == Slice(circuit, ret, Len(circuit))

\* no two rotations of the layer that are not T rotations combine
Fused(layer) ==
    \A i \in 1 .. Len(layer) : \A j \in i + 1 .. Len(layer) :
        (isRotation(layer[i]) /\ ~isTgate(layer[i])
           /\ isRotation(layer[j]) /\ ~isTgate(layer[j]))
          => ~combineGate(layer[i], layer[j]).combined

\* C24: optimizeRotation having reached its fixed point, the operations it
\* appends behind the T rotations are fused layer by layer: in no layer of
\* their partition do two rotations that are not T rotations still combine.
C24_TailFused ==
    (Optimized /\ opt.exit = "fixpoint") =>
        LET Holds(tailLayers) == \A k \in 1 .. Len(tailLayers) : Fused(tailLayers[k])
        IN  Holds(reduceLayerGreedyAlgo(AppendedTail).layers)

\* an operation of the circuit that is not a T rotation and carries the id
\* of an operation of the input that was not one either
StayedNonT(op) == IsNonT(op) /\ op.id \in 1 .. Len(input) /\ IsNonT(input[op.id])

\* a rotation that is not a T rotation and carries the id of a T rotation of
\* the input: T rotations combined in a layer
FusedFromT(op) == IsNonT(op) /\ op.id \in 1 .. Len(input) /\ IsT(input[op.id])

Commuted == pc \in {"rewritten", "rewrittenTwice", "threw"}

\* C26: applyCommutation called with a T rotation as its first operand
\* throws, the second operand being a rotation or a measurement; and a
\* worker of the T-forwarding pass about to rewrite the T rotation it
\* carries never has a T rotation as the left neighbour it rewrites against.
C26_TRewriteFails ==
    /\ (Commuted /\ isTgate(input[1])) => pc = "threw"
    /\ \A idx \in Started :
           (At(threads.worker, idx).at = "while"
              /\ At(threads.worker, idx).pivot
                   > At(threads.worker, idx).firstNontgateIndex)
             => ~isTgate(At(circuit, At(threads.worker, idx).pivot - 1))

\* ------------------------------------------------------------------------
\* Properties of the constructors from a basis vector and a qubit vector
\* ------------------------------------------------------------------------
\* a constructor has been called
Constructing == pc \in {"constructed", "threw"}

\* some qubit index lies outside [0, numQubits) or occurs twice
IllFormedQubits(qubits) ==
    \/ \E i \in 1 .. Len(qubits) : qubits[i] < 0 \/ qubits[i] >= numQubits
    \/ \E i \in 1 .. Len(qubits) : \E j \in i + 1 .. Len(qubits) :
           qubits[i] = qubits[j]

\* C27: the constructors of Operation and of Rotation that take a vector of
\* basis letters and a vector of qubit indices throw when a qubit index is
\* outside [0, numQubits) or occurs twice.
C27_IllFormedQubitsThrow ==
    (Constructing /\ IllFormedQubits(input[2])) => pc = "threw"

\* ------------------------------------------------------------------------
\* Properties of the constructors of the compiler
\* ------------------------------------------------------------------------
\* C28: each constructor of LysCompiler that takes a circuit throws when the
\* circuit is empty, the one that takes ancillaBegin as well included.
C28_EmptyCircuitThrows ==
    (Constructing /\ Len(input) = 0) => pc = "threw"

Combined == pc = "combined"

\* the two operands of combineGate are rotations about one Pauli string that
\* is not the identity
SamePauli ==
    /\ isRotation(input[1]) /\ isRotation(input[2])
    /\ ~isIdentity(input[1])
    /\ input[1].xBasis = input[2].xBasis
    /\ input[1].zBasis = input[2].zBasis

AngleSum == input[1].angle + input[2].angle

\* combineGate returned one rotation, about the operands' Pauli string
OneRotation(angle) ==
    /\ ret = 1
    /\ Len(circuit) = 1
    /\ isRotation(circuit[1])
    /\ circuit[1].angle = angle
    /\ circuit[1].xBasis = input[1].xBasis
    /\ circuit[1].zBasis = input[1].zBasis

\* C29: two rotations about the same Pauli string, not the identity, whose
\* angles do not sum to 0 and of which one has angle 0, combine only when the
\* other has angle -2, and then to one rotation of angle +2 about that string;
\* in every other such case combine refuses and returns the two unchanged.
C29_PauliCombinesWithMinusTwoOnly ==
    (Combined /\ SamePauli /\ AngleSum # 0
       /\ (input[1].angle = 0 \/ input[2].angle = 0))
    => IF AngleSum = -2
       THEN OneRotation(2)
       ELSE ret = 0 /\ circuit = input

C29_Witness ==
    /\ Combined /\ SamePauli
    /\ input[1].angle = 0 /\ input[2].angle = -2
    /\ OneRotation(2)

\* C30: two rotations about the same Pauli string, not the identity, whose
\* angles sum to +4 or -4 combine to one rotation of angle 0 about that string.
C30_FullTurnIsPauli ==
    (Combined /\ SamePauli /\ AngleSum \in {4, -4}) => OneRotation(0)

C30_Witness ==
    /\ Combined /\ SamePauli
    /\ AngleSum = -4
    /\ OneRotation(0)

\* C31: combining two identity rotations gives (combined, nothing), and
\* combining a rotation with an identity rotation, in either order, gives
\* (combined, that rotation as it was).
C31_IdentityIsNeutral ==
    (Combined /\ isRotation(input[1]) /\ isRotation(input[2])
       /\ (isIdentity(input[1]) \/ isIdentity(input[2])))
    => /\ ret = 1
       /\ circuit = IF isIdentity(input[1]) /\ isIdentity(input[2]) THEN << >>
                    ELSE IF isIdentity(input[1]) THEN << input[2] >>
                    ELSE << input[1] >>

C31_Witness ==
    /\ Combined
    /\ isRotation(input[1]) /\ isRotation(input[2])
    /\ isIdentity(input[1]) /\ ~isIdentity(input[2])
    /\ input[1].angle = 2 /\ input[2].angle = 1
    /\ ret = 1 /\ circuit = << input[2] >>

Asked == pc = "asked"

\* C32: the commutation predicate is symmetric: A.isCommute(B) equals
\* B.isCommute(A) for all rotations and measurements A and B.
C32_IsCommuteSymmetric ==
    Asked => (opt.forth <=> opt.back)

C32_Witness ==
    /\ Asked
    /\ isRotation(circuit[1]) /\ ~isRotation(circuit[2])
    /\ circuit[1].xBasis = X(0).x /\ circuit[1].zBasis = X(0).z
    /\ circuit[2].xBasis = Z(0).x /\ circuit[2].zBasis = Z(0).z
    /\ ~opt.forth /\ ~opt.back

\* C33: in the layers the partitioner returns, each measurement is alone in
\* its layer, no rotation having been merged into it, and the measurements
\* follow each other as in the input.
C33_MeasuresAlone ==
    Layered =>
        /\ \A k \in 1 .. Len(layers) :
               (\E m \in 1 .. Len(layers[k]) : IsMeasure(layers[k][m]))
                   => Len(layers[k]) = 1
        /\ MeasureOrder(Flatten(layers)) = MeasureOrder(input)

Reduced == pc = "reduced"

\* C34: when noOrderingRotationCombination returns on rotations that commute
\* with each other, no two rotations left in the vector can be combined.
C34_ReducedIsFixedPoint ==
    Reduced =>
        \A i, j \in 1 .. Len(circuit) :
            i # j => ~combineGate(circuit[i], circuit[j]).combined

\* a pair that the first pass left combinable was combined by a later one
C34_Witness ==
    /\ Reduced
    /\ Len(input) = 3 /\ Len(circuit) = 1
    /\ input[1].angle = 0 /\ input[2].angle = -1 /\ input[3].angle = -1
    /\ circuit[1].angle = 2
    /\ ret = 1

\* C35: with time_out never reached, the loop of optimizeRotation ends on
\* every circuit: an iteration that follows another one finds fewer
\* operations in the T prefix than the one before it did.
C35_LoopTerminates ==
    /\ [][(pc = "body" /\ opt.iterations >= 1)
            => opt'.numOfTgates < opt.numOfTgates]_vars
    /\ <>(pc = "loopDone")

\* the loop ended after more than one iteration
C35_Witness ==
    /\ pc = "loopDone"
    /\ opt.iterations >= 2
    /\ Len(input) > LayerParallelMin

\* the operations the one at index i of the circuit was carried across: they
\* stood before it in the input and stand behind it now
CrossedBy(i) ==
    { j \in i + 1 .. Len(circuit) : circuit[j].id < circuit[i].id }

\* C36: pushTForward returns the operations of its input, each once; an
\* operation that was not a T rotation is as it was, and so is a T rotation
\* that was carried across nothing but operations it commutes with.
C36_OnlyTRewritten ==
    pc = "pushed" =>
        /\ Len(circuit) = Len(input)
        /\ \A k \in 1 .. Len(input) : \E i \in 1 .. Len(circuit) : circuit[i].id = k
        /\ \A i \in 1 .. Len(circuit) :
               /\ ~isTgate(input[circuit[i].id]) => circuit[i] = input[circuit[i].id]
               /\ (/\ isTgate(input[circuit[i].id])
                   /\ \A j \in CrossedBy(i) :
                          isCommute(input[circuit[i].id], circuit[j]))
                      => circuit[i] = input[circuit[i].id]

\* one T rotation was carried across operations it commutes with, another
\* was rewritten on its way
C36_Witness ==
    /\ pc = "pushed"
    /\ \E i \in 1 .. Len(circuit) :
           /\ isTgate(circuit[i])
           /\ CrossedBy(i) # {}
           /\ \A j \in CrossedBy(i) : isCommute(input[circuit[i].id], circuit[j])
           /\ circuit[i] = input[circuit[i].id]
    /\ \E i \in 1 .. Len(circuit) :
           /\ isTgate(circuit[i])
           /\ circuit[i] # input[circuit[i].id]

\* C37: when the loop of optimizeRotation ends on time_out, the circuit
\* returned still holds every operation that was not a T rotation when the
\* loop was entered, behind the T prefix, and the count returned covers T
\* rotations only.
C37_TimeoutKeepsOperations ==
    (Optimized /\ opt.exit \in {"break", "expired"}) =>
        /\ \A k \in 1 .. Len(opt.step1) :
               ~isTgate(opt.step1[k])
                   => \E i \in ret + 1 .. Len(circuit) : circuit[i] = opt.step1[k]
        /\ ret <= Len(circuit)
        /\ \A i \in 1 .. ret : isTgate(circuit[i])

\* C38: the layers the partitioner returns hold the operations of its input,
\* each of them once and none other, and none of the layers is empty,
\* whether the layers were reduced in one piece or in slices, in one round
\* or in several.
C38_LayersPartitionInput ==
    Layered =>
        /\ \A k \in 1 .. Len(layers) : Len(layers[k]) > 0
        /\ \E flat \in { Flatten(layers) } :
               /\ Len(flat) = Len(input)
               /\ \A i \in 1 .. Len(input) :
                      \E p \in 1 .. Len(flat) : flat[p] = input[i]
               /\ \A p, q \in 1 .. Len(flat) : flat[p] = flat[q] => p = q

\* the layers were sliced and reduced twice, and layers were merged
C38_Witness ==
    /\ pc = "layered"
    /\ Len(opt.rounds) >= 2
    /\ MergedLayers >= 2
    /\ Len(input) % LayerThreads # 0

\* basis_permutation has run to its end, by itself or inside runLysCompiler
Absorbed == pc \in {"permuted", "compiled"} /\ perm.exit = "done"

MeasureCount(ops) == Len(SelectSeq(ops, IsMeasure))

\* C39: basis_permutation leaves the operations in front of index
\* numOfTGates as they were and deletes no measurement: the circuit is
\* shorter by the number of rotations it deleted, and holds as many
\* measurements as before.
C39_PrefixAndMeasuresKept ==
    Absorbed =>
        /\ \A i \in 0 .. perm.numOfTGates - 1 :
               i < Len(perm.before) => At(circuit, i) = At(perm.before, i)
        /\ MeasureCount(circuit) = MeasureCount(perm.before)
        /\ Len(circuit) = Len(perm.before)
                            - Cardinality({ i \in perm.deleteRotationSet :
                                              isRotation(At(perm.before, i)) })

\* ------------------------------------------------------------------------
\* run_lys_section: the multi-section driver
\* ------------------------------------------------------------------------
MaxSections == 2
MaxSectionRots == 2
MaxSectionMeas == 1

\* a shared_ptr<Operation> that owns nothing: vector<shared_ptr<Operation>>
\* gate_section(n) holds n of them
NullPointer ==
    [kind |-> "null", xBasis |-> {}, zBasis |-> {}, angle |-> 0,
     phase |-> TRUE, rotations |-> << >>, id |-> 0]

HasNull(circ) == \E i \in 1 .. Len(circ) : circ[i] = NullPointer

\* rotVecVec[i] and meaVecVec[i] of one section; rotInd[i] and meaInd[i] have
\* the sizes of these
SectionArgs ==
    { [rot |-> r, mea |-> m] :
        r \in SeqsUpTo({ Rot(2, X(0)), Rot(1, Z(0)) }, MaxSectionRots),
        m \in SeqsUpTo({ Mea(TRUE, Z(0)) }, MaxSectionMeas) }

SectionInputs == SeqsUpTo(SectionArgs, MaxSections)

FlattenArgs(args) == Flatten([k \in 1 .. Len(args) |-> args[k].rot \o args[k].mea])

\* the arguments with every operation tagged by its position in the call
TaggedArgs(args) ==
    [k \in 1 .. Len(args) |->
        LET before == Len(FlattenArgs(SubSeq(args, 1, k - 1)))
            all    == Tagged(FlattenArgs(args))
            nRot   == Len(args[k].rot)
            nMea   == Len(args[k].mea)
        IN  [rot |-> Slice(all, before, before + nRot),
             mea |-> Slice(all, before + nRot, before + nRot + nMea)]]

\* lines 139-153: each section is built as n null pointers (the sized
\* constructor) followed by the n operations emplace_back appends.
\* outputPosition of a Measure is not part of an operation here.
BuildSections ==
    /\ pc = "ready"
    /\ layers' = [k \in 1 .. Len(perm.args) |->
                    Copies(NullPointer, Len(perm.args[k].rot) + Len(perm.args[k].mea))
                      \o perm.args[k].rot \o perm.args[k].mea]
    /\ circuit' = << >>
    /\ opt' = [exit |-> "sections", i |-> 0, returned |-> << >>]
    /\ pc' = "sections"
    /\ UNCHANGED <<ancillaBegin, input, ret, perm, threads>>

\* lines 158-176, one turn of the loop over the sections. A section that
\* holds a null pointer has it dereferenced by the first isRotation() call of
\* the compile (a virtual call through the null pointer): the process stops.
\* An index past the end of the compiled circuit makes the iterator range of
\* both insert calls invalid.
RunSection ==
    /\ pc = "sections"
    /\ opt.i < Len(layers)
    /\ LET section == layers[opt.i + 1]
       IN  IF Len(section) > 0 /\ HasNull(section)
           THEN /\ pc' = "crashed"
                /\ UNCHANGED <<circuit, layers, opt, ret>>
           ELSE \E wild \in WildAngles(section) :
                  \E r \in { runLysCompiler(section, ancillaBegin, perm.combine,
                                            FALSE, NoTimeout, wild) } :
                    IF r.threw
                    THEN /\ pc' = "threw"
                         /\ UNCHANGED <<circuit, layers, opt, ret>>
                    ELSE IF r.startingIdxToRemoveAfterMeasure > Len(r.circuit)
                    THEN /\ pc' = "crashed"
                         /\ UNCHANGED <<circuit, layers, opt, ret>>
                    ELSE LET split == r.startingIdxToRemoveAfterMeasure
                             head  == Slice(r.circuit, 0, split)
                             tail  == Slice(r.circuit, split, Len(r.circuit))
                         IN  /\ layers' =
                                  IF opt.i < Len(layers) - 1
                                  THEN [layers EXCEPT ![opt.i + 2] = tail \o @]
                                  ELSE layers
                             /\ circuit' = circuit \o head
                             /\ opt' = [opt EXCEPT
                                          !.i = @ + 1,
                                          !.returned = Append(@,
                                              [section |-> section,
                                               circuit |-> r.circuit,
                                               split |-> split])]
                             /\ ret' = split
                             /\ pc' = "sections"
    /\ UNCHANGED <<ancillaBegin, input, perm, threads>>

\* lines 179-182
ReturnSections ==
    /\ pc = "sections"
    /\ opt.i = Len(layers)
    /\ pc' = "sectionsDone"
    /\ UNCHANGED <<circuit, ancillaBegin, input, ret, layers, opt, perm, threads>>

InitSections ==
    \E args \in SectionInputs, combine \in BOOLEAN :
        /\ input = Tagged(FlattenArgs(args))
        /\ perm = [exit |-> "args", args |-> TaggedArgs(args), combine |-> combine]
        /\ circuit = << >>
        /\ ancillaBegin = 2
        /\ pc = "ready"
        /\ ret = -1
        /\ layers = << >>
        /\ opt = None
        /\ threads = None

NextSections == BuildSections \/ RunSection \/ ReturnSections

SpecSections == InitSections /\ [][NextSections]_vars

\* C40: when the driver stops, every section was compiled, every operation a
\* compile returned is in the overall output or at the front of the section
\* compiled next, and no operation is in the overall output twice.
Driven == pc \in {"sectionsDone", "crashed", "threw"}

HandedOn(k) ==
    LET got  == opt.returned[k]
        tail == Slice(got.circuit, got.split, Len(got.circuit))
    IN  /\ \A j \in 1 .. got.split : \E c \in 1 .. Len(circuit) : circuit[c] = got.circuit[j]
        /\ IF k < Len(opt.returned)
           THEN SubSeq(opt.returned[k + 1].section, 1, Len(tail)) = tail
           ELSE tail = << >>

C40_SectionsHandOnEverything ==
    Driven =>
        /\ pc = "sectionsDone"
        /\ Len(opt.returned) = Len(layers)
        /\ \A k \in 1 .. Len(opt.returned) : HandedOn(k)
        /\ \A a, b \in 1 .. Len(circuit) : circuit[a].id = circuit[b].id => a = b

====
